---- MODULE Spec2Model ----
(***************************************************************************)
(* Verification model of the ordbokapi/vis-client graph engine:            *)
(*   - GraphBehaviourManager (ordered behaviour registry, getState rule),  *)
(*   - BBoxCollisionForce (bounding-box collision force, quiescence gate), *)
(*   - GraphNodeBBoxBehaviour (bounding-box cache and R*-tree index),      *)
(*   - NodeGraph.setData (saved positions, warm start of the simulation),  *)
(*   - GraphDragBehaviour, GraphSelectionBehaviour and                     *)
(*     GraphNodeTintBehaviour (pointer handling),                          *)
(*   - AppState.deserialize (the state read from the query string),        *)
(*   - NodeSelection,                                                      *)
(*   - the loading overlay and the 'start-sim' event.                      *)
(* Each component has its own specification (SpecBM, SpecCF, SpecIdx,      *)
(* SpecNG, SpecUI, SpecDec, SpecSel, SpecLive) over the shared variable    *)
(* list; a specification leaves the variables of the components it does    *)
(* not drive unchanged.                                                    *)
(***************************************************************************)
EXTENDS Integers, Sequences, FiniteSets, TLC

VARIABLES
  constructors,   \* GraphBehaviourManager.#constructors (IndexedSet, in order)
  behaviours,     \* GraphBehaviourManager.#behaviours   (IndexedSet, in order)
  created,        \* per type: number of instances ever constructed
  regOrder,       \* history: types whose register() returned normally, in order
  bmLast,         \* history: the last manager operation and what it observed
  nodes,          \* per node: graphics position (gx, gy), simulation position
                  \* (x, y), local size (w, h) and velocity (vx, vy)
  viewScale,      \* viewport.scale (uniform)
  cacheScale,     \* BoundingBoxCache.#scale
  sizes,          \* BoundingBoxCache.#sizes: node -> cached size, or NoSize
  tree,           \* the R*-tree: its leaves in traversal order
  treeLeafNodes,  \* GraphNodeBBoxBehaviour.#treeLeafNodes: node -> leaf, or NoLeaf
  epoch,          \* number of BBoxCollisionForce.initialize calls so far
  ticksSinceNewNodes, \* BBoxCollisionForce.#ticksSinceNewNodes
  listeners,      \* number of entries of BBoxCollisionForce.#onStartListeners
  rafQueue,       \* pending requestAnimationFrame callbacks (epoch that queued each)
  scheduled,      \* history: callbacks queued by applyForce in this epoch
  framesRun,      \* history: callbacks queued in this epoch that have run
  listenersAtRun, \* history: listeners present when this epoch's callback ran
  notified,       \* history: per listener, invocations on behalf of this epoch
  appliesSinceInit, \* history: applyForce calls since the last initialize
  alphaSeen,      \* twice the alpha of the simulation's last tick
  cfLast,         \* history: the last force operation and what it observed
  idxSteps,       \* number of graph loads and node moves so far
  idxLast,        \* history: the last two index operations, the tree and cache before
  firstRender,    \* NodeGraph.#firstRender
  nodePositions,  \* the channel's 'nodePositions' value: the saved snapshot
  simRunning,     \* the simulation's timer is running
  simAlpha,       \* the simulation's alpha, in millionths
  timerTicks,     \* number of timer ticks since the last setData
  ngLast,         \* history: the last renderer operation and what it did
  selection,      \* NodeSelection.#nodes
  fixed,          \* per node: the pinned position (fx, fy), or NoPin
  dragPaused,     \* the viewport's 'drag' plugin (camera panning) is paused
  isDragging,     \* GraphDragBehaviour.#state.isDragging
  dragged,        \* GraphDragBehaviour.#graphics / #node / #index (0: unset)
  anchorOffset,   \* GraphDragBehaviour.#anchorOffset
  isMouseDown,    \* GraphSelectionBehaviour.#isMouseDown
  distanceTravelled, \* GraphSelectionBehaviour.#distanceTravelled
  lastPosition,   \* GraphSelectionBehaviour.#lastPosition
  pressed,        \* GraphSelectionBehaviour.#graphics / #node (0: unset)
  pointer,        \* where the pointer is
  sidebarArticle, \* the channel's 'sidebarArticle' value (0: null)
  gestures,       \* number of pointer-downs, selection rectangles and Escapes so far
  pointerMoves,   \* number of pointer-moves while a node was pressed, so far
  tint,           \* per node: the tint of its graphics and of its text
  hovered,        \* the node the pointer is over (0: none)
  uiLast,         \* history: the last pointer or key operation and what it saw
  appState,       \* the AppState that AppState.deserialize() returned
  decLast,        \* history: the query string decoded and the warnings logged
  nodeSelection,  \* a NodeSelection: its #nodes and #tint
  visualTint,     \* per visual: its tint
  selLast,        \* history: the last NodeSelection operation
  overlayShown,   \* the viewport's loading overlay is displayed
  pendingLoads,   \* graphs requested (fetch or reload) and not yet set
  awaitingStart,  \* no 'start-sim' has been emitted since the last setData
  registered,     \* the renderer's manager: #constructors
  instances,      \* the renderer's manager: #behaviours
  loads,          \* number of setData calls so far
  allGraphics,    \* NodeGraph.#nodes: the visuals of the current node set
  selected,       \* NodeGraph.#selection: the visuals selected
  upHandlers,     \* the viewport's 'pointerup' listeners added by the tint behaviour, by visual
  mouseDown,      \* GraphSelectionBehaviour.#isMouseDown of the renderer
  pressedVisual,  \* GraphSelectionBehaviour.#graphics of the renderer
  dragState,      \* GraphDragBehaviour.#state.isDragging of the renderer
  getStateCalls,  \* history: every getState call made so far and what it threw
  rendLast,       \* history: the last renderer operation and the listeners it ran
  setElements,    \* an IndexedSet: #elements
  setIndices,     \* an IndexedSet: #indices
  setAdded,       \* history: the elements added and not deleted since
  setLast         \* history: the last IndexedSet operation

bmVars == <<constructors, behaviours, created, regOrder, bmLast>>

geoVars == <<nodes, viewScale, cacheScale, sizes, tree, treeLeafNodes>>

cfVars == <<epoch, ticksSinceNewNodes, listeners, rafQueue, scheduled, framesRun,
            listenersAtRun, notified, appliesSinceInit, alphaSeen, cfLast>>

idxVars == <<idxSteps, idxLast>>

ngVars == <<firstRender, nodePositions, simRunning, simAlpha, timerTicks, ngLast>>

uiVars == <<selection, fixed, dragPaused, isDragging, dragged, anchorOffset,
            isMouseDown, distanceTravelled, lastPosition, pressed, pointer,
            sidebarArticle, gestures, pointerMoves, tint, hovered, uiLast>>

decVars == <<appState, decLast>>

selVars == <<nodeSelection, visualTint, selLast>>

liveVars == <<overlayShown, pendingLoads, awaitingStart>>

rendVars == <<registered, instances, loads, allGraphics, selected, upHandlers,
              mouseDown, pressedVisual, dragState, getStateCalls, rendLast>>

\* The variables of the components that stand alone.
setVars == <<setElements, setIndices, setAdded, setLast>>

libVars == <<decVars, selVars, liveVars, rendVars, setVars>>

(***************************************************************************)
(* Part 1.  GraphBehaviourManager                                          *)
(***************************************************************************)

\* Number of distinct behaviour classes offered to the manager.
NumTypes == 3

Types == 1..NumTypes

\* "No behaviour": the target of a hook or constructor that asks for no state.
NoType == 0

\* The three lifecycle hooks the manager dispatches.
Hooks == {"nodeGraphicsCreated", "allNodeGraphicsCreated", "graphicsRendered"}

\* The value of `undefined` where an instance is expected.
NoInst == [type |-> 0, serial |-> 0]

\* getState?() is optional on a behaviour: even-numbered classes omit it.
ImplementsGetState(t) == t % 2 = 1

\* Every hook is optional on a behaviour: class 2 omits graphicsRendered.
ImplementsHook(t, h) == ~(t = 2 /\ h = "graphicsRendered")

\* IndexedSet.indexOf: zero-based index, -1 when absent.
IndexOf(s, e) ==
  IF \E i \in 1..Len(s) : s[i] = e
    THEN (CHOOSE i \in 1..Len(s) : s[i] = e) - 1
    ELSE -1

\* IndexedSet.has
Has(s, e) == \E i \in 1..Len(s) : s[i] = e

\* IndexedSet.add: appends unless already present.
Add(s, e) == IF Has(s, e) THEN s ELSE Append(s, e)

\* IndexedSet.get: the element at a zero-based index, undefined out of range.
Get(s, idx) == IF idx >= 0 /\ idx < Len(s) THEN s[idx + 1] ELSE NoInst

\* GraphBehaviourManager.#getState(behaviour, requestingBehaviour), evaluated
\* against the two indexed sets as they are at the time of the call.
\*   threw / err : whether the call throws, and which error
\*   src         : the instance whose getState?.() produced the value
\*   hasValue    : whether that instance implements getState
GetState(target, requesting, cons, behs) ==
  LET requestingIndex == IndexOf(cons, requesting)
      index == IndexOf(cons, target)
      inst == Get(behs, index)
  IN  IF requestingIndex < index
        THEN [threw |-> TRUE, err |-> "order", src |-> NoInst, hasValue |-> FALSE]
      ELSE IF inst = NoInst
        THEN [threw |-> TRUE, err |-> "TypeError", src |-> NoInst, hasValue |-> FALSE]
      ELSE [threw |-> FALSE, err |-> "none", src |-> inst,
            hasValue |-> ImplementsGetState(inst.type)]

\* One getState call as the history records it.
CallRec(by, byType, target, phase, r, done) ==
  [by |-> by, byType |-> byType, target |-> target, phase |-> phase,
   threw |-> r.threw, err |-> r.err, src |-> r.src, done |-> done]

InitBM ==
  /\ constructors = <<>>
  /\ behaviours = <<>>
  /\ created = [t \in Types |-> 0]
  /\ regOrder = <<>>
  /\ bmLast = [op |-> "none", type |-> NoType, threw |-> FALSE, calls |-> <<>>,
               ran |-> <<>>, preCons |-> <<>>, preBehs |-> <<>>,
               preCreated |-> [t \in Types |-> 0], preReg |-> <<>>]

\* The part of register() after the duplicate check: record the class, run its
\* constructor, record the instance.  The constructor of class t asks for the
\* state of class q (NoType: asks nothing) through the getState it is handed;
\* like every behaviour of the repository it does not catch what getState
\* throws, so a throwing getState ends register() before #behaviours.add.
Construct(t, q) ==
  LET cons1 == Add(constructors, t)
      inst == [type |-> t, serial |-> created[t] + 1]
      r == IF q = NoType THEN [threw |-> FALSE, err |-> "none", src |-> NoInst,
                               hasValue |-> FALSE]
           ELSE GetState(q, t, cons1, behaviours)
  IN  /\ constructors' = cons1
      /\ created' = [created EXCEPT ![t] = @ + 1]
      /\ behaviours' = IF r.threw THEN behaviours ELSE Append(behaviours, inst)
      /\ regOrder' = IF r.threw THEN regOrder ELSE Append(regOrder, t)
      /\ bmLast' = [op |-> "register", type |-> t, threw |-> r.threw,
                    calls |-> IF q = NoType THEN <<>>
                              ELSE <<CallRec(inst, t, q, "constructor", r, {})>>,
                    ran |-> <<>>, preCons |-> constructors, preBehs |-> behaviours,
                    preCreated |-> created, preReg |-> regOrder]

\* register() with the duplicate check left out.
RegisterNoDuplicateCheck(t, q) == Construct(t, q)

\* GraphBehaviourManager.register(behaviour).
Register(t, q) ==
  IF Has(constructors, t)
    THEN \* throw new Error('Cannot add the same type of graph behaviour twice.')
      /\ bmLast' = [op |-> "register", type |-> t, threw |-> TRUE, calls |-> <<>>,
                    ran |-> <<>>, preCons |-> constructors, preBehs |-> behaviours,
                    preCreated |-> created, preReg |-> regOrder]
      /\ UNCHANGED <<constructors, behaviours, created, regOrder>>
    ELSE Construct(t, q)

\* The loop of #runBehaviourMethod from position i on.  reqs[t] is the class
\* whose state the hook of class t asks for (NoType: none); `ran` collects the
\* positions whose hook has returned, `calls` the getState calls made so far.
\* A hook does not catch what getState throws, so the error ends the loop.
RECURSIVE RunHooksFrom(_, _, _, _, _)
RunHooksFrom(i, h, reqs, ran, calls) ==
  IF i > Len(behaviours)
    THEN [threw |-> FALSE, ran |-> ran, calls |-> calls]
  ELSE
    LET b == behaviours[i] IN
    IF ~ImplementsHook(b.type, h)
      THEN RunHooksFrom(i + 1, h, reqs, ran, calls)
    ELSE IF reqs[b.type] = NoType
      THEN RunHooksFrom(i + 1, h, reqs, Append(ran, i), calls)
    ELSE
      LET r == GetState(reqs[b.type], b.type, constructors, behaviours)
          done == {ran[k] : k \in 1..Len(ran)}
          calls1 == Append(calls, CallRec(b, b.type, reqs[b.type], h, r, done))
      IN  IF r.threw
            THEN [threw |-> TRUE, ran |-> ran, calls |-> calls1]
            ELSE RunHooksFrom(i + 1, h, reqs, Append(ran, i), calls1)

\* GraphBehaviourManager.#runBehaviourMethod(methodName, options): every
\* behaviour in #behaviours order.
RunBehaviourMethod(h, reqs) == RunHooksFrom(1, h, reqs, <<>>, <<>>)

\* nodeGraphicsCreated / allNodeGraphicsCreated / graphicsRendered of the
\* manager; the hook of class c asks for the state of class q.
Dispatch(h, c, q) ==
  LET out == RunBehaviourMethod(h, [t \in Types |-> IF t = c THEN q ELSE NoType])
  IN  /\ Len(behaviours) > 0
      /\ bmLast' = [op |-> h, type |-> NoType, threw |-> out.threw,
                    calls |-> out.calls, ran |-> out.ran,
                    preCons |-> constructors, preBehs |-> behaviours,
                    preCreated |-> created, preReg |-> regOrder]
      /\ UNCHANGED <<constructors, behaviours, created, regOrder>>

NextBM ==
  /\ \/ \E t \in Types, q \in Types \cup {NoType} : Register(t, q)
     \/ \E h \in Hooks, c \in Types, q \in Types \cup {NoType} : Dispatch(h, c, q)
  /\ UNCHANGED <<geoVars, cfVars, idxVars, ngVars, uiVars, libVars>>

(***************************************************************************)
(* Claims about the GraphBehaviourManager (checked under SpecBM)           *)
(***************************************************************************)

\* One-based position of an instance in #behaviours (0 when absent).
PosOf(inst) == IndexOf(behaviours, inst) + 1

\* Number of instances of class t in #behaviours.
InstancesOf(t) == Cardinality({i \in 1..Len(behaviours) : behaviours[i].type = t})

\* C1: register(T) for a class T whose earlier register(T) returned normally
\* throws at once and changes nothing: no constructor runs, the two indexed
\* sets are the ones before the call, and exactly one instance of T is held.
C1_DuplicateRegisterThrows ==
  (bmLast.op = "register" /\ Has(bmLast.preReg, bmLast.type)) =>
    /\ bmLast.threw
    /\ bmLast.calls = <<>>
    /\ created = bmLast.preCreated
    /\ created[bmLast.type] = 1
    /\ constructors = bmLast.preCons
    /\ behaviours = bmLast.preBehs
    /\ InstancesOf(bmLast.type) = 1

\* C1 witness: a duplicate register() was attempted while two behaviours were
\* registered, and it threw.
C1_Witness ==
  /\ bmLast.op = "register"
  /\ Has(bmLast.preReg, bmLast.type)
  /\ bmLast.threw
  /\ Len(behaviours) >= 2

\* The caller of call c was registered before its target (or is being
\* constructed while the target is not known to the manager at all).
TargetIsLater(c) ==
  /\ c.target # c.byType
  /\ IF c.phase = "constructor"
       THEN ~Has(bmLast.preCons, c.target)
       ELSE /\ Has(bmLast.preReg, c.target)
            /\ IndexOf(bmLast.preReg, c.byType) < IndexOf(bmLast.preReg, c.target)

\* The target of call c was registered (its register() returned) before the caller.
TargetIsEarlier(c) ==
  /\ c.target # c.byType
  /\ Has(bmLast.preReg, c.target)
  /\ \/ c.phase = "constructor"
     \/ IndexOf(bmLast.preReg, c.target) < IndexOf(bmLast.preReg, c.byType)

\* C2, first half: a getState(B) made by A, B registered after A, throws.
C2_ForwardThrows ==
  \A k \in 1..Len(bmLast.calls) :
    TargetIsLater(bmLast.calls[k]) => bmLast.calls[k].threw

\* C2, second half: a getState(A) made by B, A registered before B, returns
\* the state of A's instance without throwing.
C2_BackwardReturns ==
  \A k \in 1..Len(bmLast.calls) :
    TargetIsEarlier(bmLast.calls[k]) =>
      /\ ~bmLast.calls[k].threw
      /\ bmLast.calls[k].src.type = bmLast.calls[k].target

\* C2: for registered classes A and B with B registered after A, getState(B)
\* made by A throws, and getState(A) made by B returns A's state.
C2_GetStateFollowsRegistrationOrder == C2_ForwardThrows /\ C2_BackwardReturns

\* C3, first half: a dispatch runs the hooks in #behaviours order, each at
\* most once.
C3_HooksInOrder ==
  bmLast.op \in Hooks =>
    \A i, j \in 1..Len(bmLast.ran) : i < j => bmLast.ran[i] < bmLast.ran[j]

\* C3, second half: a hook that obtains the state of another behaviour without
\* an error obtains it from a behaviour placed before it, whose hook for this
\* dispatch (if it has one) has already returned.
C3_StateOnlyFromFinishedHooks ==
  bmLast.op \in Hooks =>
    \A k \in 1..Len(bmLast.calls) :
      LET c == bmLast.calls[k] IN
      (~c.threw /\ c.src # c.by) =>
        /\ PosOf(c.src) < PosOf(c.by)
        /\ ImplementsHook(c.src.type, bmLast.op) => PosOf(c.src) \in c.done

\* C3: hooks run at most once each and in registration order, so a state
\* obtained through getState belongs to a behaviour whose hook has returned.
C3_DependenciesHaveRun == C3_HooksInOrder /\ C3_StateOnlyFromFinishedHooks

(***************************************************************************)
(* Part 2.  Geometry: Rect2D, Vector2D, BoundingBoxCache, the R*-tree      *)
(*                                                                         *)
(* Coordinates and sizes are integers (positions even, sizes multiples of  *)
(* four), so every halving the code performs on them is exact.  Velocities *)
(* and force magnitudes are real numbers in the code; the model holds them *)
(* in thousandths and rounds every quotient towards zero.                  *)
(***************************************************************************)

\* Number of nodes of a graph handed to the renderer.
NumNodes == 3

NodeIds == 1..NumNodes

\* Velocities, magnitudes and unit vectors are held in units of 1/Q.
Q == 1000

\* Rect2D.intersection: the value null.
NoRect == [x |-> 0, y |-> 0, w |-> -1, h |-> -1]

\* BoundingBoxCache.#sizes.get(object): the value undefined.
NoSize == [w |-> 0, h |-> 0]

\* GraphNodeBBoxBehaviour.#treeLeafNodes.get(graphics): the value undefined.
NoLeaf == [minX |-> 0, minY |-> 0, maxX |-> -1, maxY |-> -1, node |-> 0]

Max(a, b) == IF a >= b THEN a ELSE b

Min(a, b) == IF a <= b THEN a ELSE b

\* Quotient rounded towards zero (b > 0).
TDiv(a, b) == IF a >= 0 THEN a \div b ELSE -((-a) \div b)

\* Math.sqrt on a non-negative integer, rounded down: bisection on [lo, hi].
RECURSIVE SqrtIn(_, _, _)
SqrtIn(n, lo, hi) ==
  IF lo >= hi THEN lo
  ELSE LET mid == (lo + hi + 1) \div 2
       IN  IF mid * mid <= n THEN SqrtIn(n, mid, hi) ELSE SqrtIn(n, lo, mid - 1)

Sqrt(n) == SqrtIn(n, 0, 46340)

\* Rect2D.intersection with the test for "apart" requiring both axes.
IntersectionBothAxes(a, b) ==
  LET x1 == Max(a.x, b.x)
      y1 == Max(a.y, b.y)
      x2 == Min(a.x + a.w, b.x + b.w)
      y2 == Min(a.y + a.h, b.y + b.h)
  IN  IF x2 < x1 /\ y2 < y1 THEN NoRect
      ELSE [x |-> x1, y |-> y1, w |-> x2 - x1, h |-> y2 - y1]

\* Rect2D.intersection(rect): null when the two are apart on either axis,
\* else the common rectangle (of zero width or height when they only touch).
Intersection(a, b) ==
  LET x1 == Max(a.x, b.x)
      y1 == Max(a.y, b.y)
      x2 == Min(a.x + a.w, b.x + b.w)
      y2 == Min(a.y + a.h, b.y + b.h)
  IN  IF x2 < x1 \/ y2 < y1 THEN NoRect
      ELSE [x |-> x1, y |-> y1, w |-> x2 - x1, h |-> y2 - y1]

\* Rect2D.area
Area(r) == r.w * r.h

\* Twice Rect2D.center (kept doubled so that it stays an integer).
Center2(r) == [x |-> 2 * r.x + r.w, y |-> 2 * r.y + r.h]

\* Rect2D.resizeCentered(amount): the rectangle grown by `amount` in width and
\* in height about its centre, i.e. by amount / 2 on every side.
ResizeCentered(r, amount) ==
  [x |-> r.x - amount \div 2, y |-> r.y - amount \div 2,
   w |-> r.w + amount, h |-> r.h + amount]

\* pixi getBounds() of a node's graphics: its size in global space, which is
\* the local size times the viewport scale.
GlobalSize(n, scale) == [w |-> n.w * scale, h |-> n.h * scale]

\* BoundingBoxCache.get(object): the cached size when there is one, else the
\* size #cacheSize returns, which is the global size as measured (the size it
\* stores is that size divided by #scale).  The rectangle is centred on the
\* position of the graphics.
CacheGet(cached, n, scale) ==
  LET size == IF cached # NoSize THEN cached ELSE GlobalSize(n, scale)
  IN  [x |-> n.gx - size.w \div 2, y |-> n.gy - size.h \div 2,
       w |-> size.w, h |-> size.h]

\* BoundingBoxCache.#cacheSize: what #sizes holds for the object after a get.
CacheSize(cached, n, scale, cscale) ==
  IF cached # NoSize THEN cached
  ELSE [w |-> (n.w * scale) \div cscale, h |-> (n.h * scale) \div cscale]

\* GraphNodeBBoxBehaviour.#graphicsToLeafNode(graphics, d3Node)
GraphicsToLeafNode(cached, ns, i, scale) ==
  LET bounds == CacheGet(cached, ns[i], scale)
  IN  [minX |-> bounds.x, minY |-> bounds.y,
       maxX |-> bounds.x + bounds.w, maxY |-> bounds.y + bounds.h, node |-> i]

\* RBush.search(bbox) on a tree of at most nine entries (one tree node): the
\* leaves that intersect or touch the box, in the order the tree holds them.
TreeSearch(t, r) ==
  SelectSeq(t, LAMBDA leaf : /\ leaf.minX <= r.x + r.w
                             /\ leaf.minY <= r.y + r.h
                             /\ leaf.maxX >= r.x
                             /\ leaf.maxY >= r.y)

\* RBush.remove(leaf, (a, b) => a.d3Node === b.d3Node): drops the first entry
\* of the same node.
TreeRemove(t, i) ==
  IF \E k \in 1..Len(t) : t[k].node = i
    THEN LET k == CHOOSE k \in 1..Len(t) :
                    t[k].node = i /\ \A m \in 1..(k - 1) : t[m].node # i
         IN  SubSeq(t, 1, k - 1) \o SubSeq(t, k + 1, Len(t))
    ELSE t

\* allNodeGraphicsCreated() without the cache.clear().
AllNodeGraphicsCreatedNoClear(cached, ns, scale) ==
  LET leaves == [i \in NodeIds |-> GraphicsToLeafNode(cached[i], ns, i, scale)]
  IN  [cacheScale |-> scale,
       sizes |-> [i \in NodeIds |-> CacheSize(cached[i], ns[i], scale, scale)],
       tree |-> leaves,
       treeLeafNodes |-> leaves]

\* GraphNodeBBoxBehaviour.allNodeGraphicsCreated(): cache.clear(),
\* cache.reload(), #rebuildRStarTree().  `cached` is what the cache holds for
\* the graphics before the call.  Yields the new cache scale, cache contents,
\* tree (loaded in graphics order) and leaf map for the nodes ns under
\* viewport scale `scale`.
AllNodeGraphicsCreated(cached, ns, scale) ==
  LET leaves == [i \in NodeIds |-> GraphicsToLeafNode(NoSize, ns, i, scale)]
  IN  [cacheScale |-> scale,
       sizes |-> [i \in NodeIds |-> CacheSize(NoSize, ns[i], scale, scale)],
       tree |-> leaves,
       treeLeafNodes |-> leaves]

\* The loop of #updateRStarTree passing over a graphics that has no leaf.
RECURSIVE UpdateLoopSkipsLeafless(_, _, _, _)
UpdateLoopSkipsLeafless(i, ns, scale, st) ==
  IF i > NumNodes THEN st
  ELSE
    LET leaf == st.treeLeafNodes[i]
        same == /\ leaf # NoLeaf
                /\ ns[leaf.node].x = ns[i].gx
                /\ ns[leaf.node].y = ns[i].gy
        newLeaf == GraphicsToLeafNode(st.sizes[i], ns, i, scale)
    IN  IF same \/ leaf = NoLeaf THEN UpdateLoopSkipsLeafless(i + 1, ns, scale, st)
        ELSE UpdateLoopSkipsLeafless(i + 1, ns, scale,
               [tree |-> Append(TreeRemove(st.tree, leaf.node), newLeaf),
                treeLeafNodes |-> [st.treeLeafNodes EXCEPT ![i] = newLeaf],
                sizes |-> [st.sizes EXCEPT ![i] =
                             CacheSize(@, ns[i], scale, cacheScale)]])

\* BoundingBoxCache.#onZoomed also clearing the cache.
OnZoomedClears(cached, scale) ==
  [cacheScale |-> scale, sizes |-> [i \in NodeIds |-> NoSize]]

\* BoundingBoxCache.#onZoomed() with the viewport at `scale`: the cache takes
\* the new scale and keeps what it holds.
OnZoomed(cached, scale) == [cacheScale |-> scale, sizes |-> cached]

\* The loop of #updateRStarTree from graphics i on, over the tree, leaf map
\* and cache contents in st.  The leaf of a node is kept when the node's
\* simulation position equals the position of its graphics; otherwise it is
\* removed and a leaf made from the graphics is inserted at the end.  A
\* graphics without a leaf is warned about and gets a leaf inserted.
RECURSIVE UpdateLoop(_, _, _, _)
UpdateLoop(i, ns, scale, st) ==
  IF i > NumNodes THEN st
  ELSE
    LET leaf == st.treeLeafNodes[i]
        same == /\ leaf # NoLeaf
                /\ ns[leaf.node].x = ns[i].gx
                /\ ns[leaf.node].y = ns[i].gy
        newLeaf == GraphicsToLeafNode(st.sizes[i], ns, i, scale)
        removed == IF leaf # NoLeaf THEN TreeRemove(st.tree, leaf.node) ELSE st.tree
        replaced == [tree |-> Append(removed, newLeaf),
                     treeLeafNodes |-> [st.treeLeafNodes EXCEPT ![i] = newLeaf],
                     sizes |-> [st.sizes EXCEPT ![i] =
                                  CacheSize(@, ns[i], scale, cacheScale)]]
    IN  \* the rest of the loop runs on the state as it stands after graphics i
        CHOOSE out \in {UpdateLoop(i + 1, ns, scale, next) :
                          next \in {IF same THEN st ELSE replaced}} : TRUE

\* GraphNodeBBoxBehaviour.#updateRStarTree()
UpdateRStarTree(ns, scale) ==
  CHOOSE out \in {UpdateLoop(1, at, scale,
                             [tree |-> tree, treeLeafNodes |-> treeLeafNodes,
                              sizes |-> sizes]) : at \in {ns}} : TRUE

(***************************************************************************)
(* Part 3.  BBoxCollisionForce                                             *)
(***************************************************************************)

\* .ticksToWait(200) in the configuration of the force.
TicksToWait == 200

\* .strength(2) in the configuration of the force.
Strength == 2

\* The margin added around the other node: resizeCentered(20).
Margin == 20

\* Math.min(intersection.area, 5)
AreaCap == 5

\* frictionDeceleration = 0.02, in hundredths.
FrictionPercent == 2

\* Largest number of listeners given to onStart.
MaxListeners == 2

\* Largest number of initialize calls followed.
MaxEpochs == 2

\* Largest number of applyForce calls followed once the force takes effect.
MaxActiveApplies == 2

\* Twice the alpha values handed to applyForce: alpha 0, 1/2 and 1.
Alphas2 == {0, 1, 2}

\* Width of node i's label box: even-numbered nodes have the longer label.
Width(i) == IF i % 2 = 0 THEN 48 ELSE 40

\* Horizontal positions a node of a new graph is created at (node 1 is at 0).
\* For node 2 against node 1: 30 overlaps, 48 leaves a gap of 4, 60 a gap of
\* 16, and 200 is far away.
XPositions == {30, 48, 60, 200}

\* Vertical position of node i: boxes 20 high stacked 12 apart, so that two
\* nodes at the same x overlap when adjacent and are 4 apart otherwise.
YPosition(i) == 12 * (i - 1)

\* Viewport scales a graph is created under.
Scales == {1, 2}

\* A node as a graph is handed over: graphics at the simulation position, a
\* label box 20 high, and a velocity left by the other forces.
NewNode(i, x) ==
  [gx |-> x, gy |-> YPosition(i), x |-> x, y |-> YPosition(i), w |-> Width(i), h |-> 20,
   vx |-> i * (Q \div 2), vy |-> -i * (Q \div 4)]

\* The graphs handed to the renderer: node 1 at 0, nodes 2 and 3 at any of
\* XPositions, further nodes in the far column.
NodeConfigs ==
  {[i \in NodeIds |-> NewNode(i, IF i = 1 THEN 0 ELSE IF i <= 3 THEN xs[i] ELSE 200)] :
     xs \in [{2, 3} -> XPositions]}

\* The state before any graph is set.
NoNodes == [i \in NodeIds |-> NewNode(i, 0)]

\* 16 * Math.pow(alpha - 1 - this.#alphaTarget, 4) with alphaTarget 0, for
\* alpha given as alpha2 / 2.
AlphaFactor16(alpha2) == (alpha2 - 2) * (alpha2 - 2) * (alpha2 - 2) * (alpha2 - 2)

\* The body of the candidate loop without the Math.min(..., 1) around the
\* force magnitude.
PairForceUnclamped(b, o, af16) ==
  LET inter == Intersection(b, ResizeCentered(o, Margin))
      d2 == [x |-> Center2(inter).x - Center2(b).x,
             y |-> Center2(inter).y - Center2(b).y]     \* twice `direction`
      m2 == d2.x * d2.x + d2.y * d2.y
      magQ == Sqrt(m2 * (Q \div 20) * (Q \div 20)) * 10 \* direction.magnitude
      distQ == Max(magQ, Q)
      area == Min(Area(inter), AreaCap)
      fmQ == TDiv(TDiv(area * Q * Q, distQ) * af16, 16)
      nx == TDiv(d2.x * Q * Q, 2 * magQ)                \* normalizedDirection
      ny == TDiv(d2.y * Q * Q, 2 * magQ)
      fx == -TDiv(nx * fmQ * Strength, Q)
      fy == -TDiv(ny * fmQ * Strength, Q)
  IN  IF inter = NoRect THEN [kind |-> "none", fx |-> 0, fy |-> 0]
      ELSE IF m2 = 0 THEN [kind |-> "none", fx |-> 0, fy |-> 0]
      ELSE IF Sqrt(fx * fx + fy * fy) < Q \div 100
        THEN [kind |-> "friction", fx |-> 0, fy |-> 0]
      ELSE [kind |-> "impulse", fx |-> fx, fy |-> fy]

\* The body of the candidate loop for node bounds `b` against the bounds `o`
\* of another node: what is done ("none", "friction" or "impulse") and, for an
\* impulse, the force in 1/Q.
PairForce(b, o, af16) ==
  LET inter == Intersection(b, ResizeCentered(o, Margin))
      d2 == [x |-> Center2(inter).x - Center2(b).x,
             y |-> Center2(inter).y - Center2(b).y]     \* twice `direction`
      m2 == d2.x * d2.x + d2.y * d2.y
      magQ == Sqrt(m2 * (Q \div 20) * (Q \div 20)) * 10 \* direction.magnitude
      distQ == Max(magQ, Q)
      area == Min(Area(inter), AreaCap)
      fmQ == Min(TDiv(TDiv(area * Q * Q, distQ) * af16, 16), Q)
      nx == TDiv(d2.x * Q * Q, 2 * magQ)                \* normalizedDirection
      ny == TDiv(d2.y * Q * Q, 2 * magQ)
      fx == -TDiv(nx * fmQ * Strength, Q)
      fy == -TDiv(ny * fmQ * Strength, Q)
  IN  IF inter = NoRect THEN [kind |-> "none", fx |-> 0, fy |-> 0]
      ELSE IF m2 = 0 THEN [kind |-> "none", fx |-> 0, fy |-> 0]
      ELSE IF Sqrt(fx * fx + fy * fy) < Q \div 100
        THEN [kind |-> "friction", fx |-> 0, fy |-> 0]
      ELSE [kind |-> "impulse", fx |-> fx, fy |-> fy]

\* The friction slowing every node down.
ApplyFrictionToAll(ns, i) ==
  [k \in NodeIds |-> [ns[k] EXCEPT !.vx = TDiv(@ * FrictionPercent, 100),
                                   !.vy = TDiv(@ * FrictionPercent, 100)]]

\* d3Node.vx *= frictionDeceleration; d3Node.vy *= frictionDeceleration
ApplyFriction(ns, i) ==
  [ns EXCEPT ![i].vx = TDiv(@ * FrictionPercent, 100),
             ![i].vy = TDiv(@ * FrictionPercent, 100)]

\* The impulse with the same sign on both nodes.
ApplyImpulseSameSign(ns, i, j, f) ==
  [ns EXCEPT ![i].vx = @ + f.fx, ![i].vy = @ + f.fy,
             ![j].vx = @ + f.fx, ![j].vy = @ + f.fy]

\* The impulse on the processed node only.
ApplyImpulseOneSided(ns, i, j, f) ==
  [ns EXCEPT ![i].vx = @ + f.fx, ![i].vy = @ + f.fy]

\* d3Node.v += force; otherNode.v -= force
ApplyImpulse(ns, i, j, f) ==
  [ns EXCEPT ![i].vx = @ + f.fx, ![i].vy = @ + f.fy,
             ![j].vx = @ - f.fx, ![j].vy = @ - f.fy]

\* What the history keeps of the loop body for node i and candidate j: the
\* branch taken and the velocities of the two nodes before and after it.
Interaction(i, j, kind, before, after) ==
  [node |-> i, other |-> j, kind |-> kind,
   vBefore |-> [node |-> <<before[i].vx, before[i].vy>>,
                other |-> <<before[j].vx, before[j].vy>>],
   vAfter |-> [node |-> <<after[i].vx, after[i].vy>>,
               other |-> <<after[j].vx, after[j].vy>>]]

\* The body of the candidate loop for node i and the other node j, f being
\* the force computed for the pair: the branch it takes on st.
CandidateStep(i, j, f, st) ==
  IF f.kind = "friction"
    THEN [st EXCEPT !.ns = ApplyFriction(@, i),
                    !.frictions = @ \cup {<<i, j>>},
                    !.log = Append(@, Interaction(i, j, "friction", st.ns,
                                                  ApplyFriction(st.ns, i)))]
  ELSE IF f.kind = "impulse"
    THEN [st EXCEPT !.ns = ApplyImpulse(@, i, j, f),
                    !.impulses = @ \cup {<<i, j>>},
                    !.forces = @ \cup {<<i, j, f.fx, f.fy>>},
                    !.log = Append(@, Interaction(i, j, "impulse", st.ns,
                                                  ApplyImpulse(st.ns, i, j, f)))]
  ELSE st

\* The inner loop of applyForce for node i over the leaves `cand` returned by
\* nodesIn(searchBounds), from position k on.  st.ns are the nodes with the
\* velocities so far, st.frictions and st.impulses the (node, other) pairs
\* that took the friction branch and the impulse branch, st.forces the
\* impulses applied (node, other, force in 1/Q), st.log the interactions in
\* the order they happened.
RECURSIVE CandidateLoop(_, _, _, _, _)
CandidateLoop(i, cand, k, af16, st) ==
  IF k > Len(cand) THEN st
  ELSE IF cand[k].node = i THEN CandidateLoop(i, cand, k + 1, af16, st)
  ELSE
    \* the rest of the loop runs on the state as it stands after candidate k
    CHOOSE out \in
      {CandidateLoop(i, cand, k + 1, af16, next) :
         next \in {CandidateStep(
                     i, cand[k].node,
                     PairForce(CacheGet(sizes[i], st.ns[i], viewScale),
                               CacheGet(sizes[cand[k].node],
                                        st.ns[cand[k].node], viewScale),
                               af16),
                     st)}} : TRUE

\* The outer loop of applyForce from node i on.
RECURSIVE NodeLoop(_, _, _)
NodeLoop(i, af16, st) ==
  IF i > NumNodes THEN st
  ELSE
    LET bounds == CacheGet(sizes[i], st.ns[i], viewScale)
        searchBounds == ResizeCentered(bounds, Margin)
        cand == TreeSearch(tree, searchBounds)
    IN  \* the candidates are searched once, and the next node starts from the
        \* state as it stands after them
        CHOOSE out \in {NodeLoop(i + 1, af16, next) :
                          next \in {CandidateLoop(i, found, 1, af16, st) :
                                      found \in {cand}}} : TRUE

\* The quiescence test ending one call early.
QuiescentOffByOne(ticks) == ticks + 1 < TicksToWait

\* applyForce returns before the force loops while the counter is below
\* ticksToWait.
Quiescent(ticks) == ticks < TicksToWait

\* The listeners queued on every call once the window is over.
StartsNowAlways(ticks) == ticks >= TicksToWait

\* The listeners are queued when the counter is exactly ticksToWait.
StartsNow(ticks) == ticks = TicksToWait

ListenerIds == 1..MaxListeners

NoneNotified == [l \in ListenerIds |-> 0]

\* The graph set next: any graph at any scale at first; afterwards the graph
\* on screen is set again (a reload), its nodes where they are.
GraphsToSet ==
  IF epoch = 0 THEN NodeConfigs ELSE {[i \in NodeIds |-> NewNode(i, nodes[i].gx)]}

ScalesToSet == IF epoch = 0 THEN Scales ELSE {viewScale}

\* The listeners of 'start-sim' on the channel, in the order they were
\* added: the viewport component's and one of another subscriber.
ChannelListenerIds == {1, 2}

\* A notification loop without try / catch: the first listener that throws
\* ends the loop and the exception leaves it.
NotifyUntilThrow(n, throwers) ==
  LET first == IF throwers \cap (1..n) = {} THEN n
               ELSE CHOOSE k \in throwers \cap (1..n) :
                      \A j \in throwers \cap (1..n) : k <= j
  IN  [called |-> 1..first, logged |-> 0, propagated |-> throwers \cap (1..n) # {}]

\* `for (const listener of listeners) { try { listener(...) } catch (error)
\* { console.warn(...) } }` over listeners 1..n, those in `throwers`
\* throwing: the listeners called, the number of warnings logged, and
\* whether an exception leaves the loop.
NotifyListeners(n, throwers) ==
  [called |-> 1..n, logged |-> Cardinality(throwers \cap (1..n)), propagated |-> FALSE]

\* No notification was made.
NoNotice ==
  [threw |-> {}, channelThrew |-> {}, called |-> {}, channelCalled |-> {},
   logged |-> 0, propagated |-> FALSE]

\* What the history keeps of one force operation: the nodes, notification
\* counts, counter and number of listeners before it, the pairs that took
\* each branch of the force loop, and what a notification of the listeners
\* did.
CFRecord(op, pre, preNotified, frictions, impulses) ==
  [op |-> op, pre |-> pre, preNotified |-> preNotified,
   frictions |-> frictions, impulses |-> impulses, notice |-> NoNotice,
   preTicks |-> ticksSinceNewNodes, preListeners |-> listeners, forces |-> {},
   log |-> <<>>]

InitGeo ==
  /\ nodes = NoNodes
  /\ viewScale = 1
  /\ cacheScale = 1
  /\ sizes = [i \in NodeIds |-> NoSize]
  /\ tree = <<>>
  /\ treeLeafNodes = [i \in NodeIds |-> NoLeaf]

\* The force as GraphForceBehaviour configures it: no nodes yet, the counter
\* at zero, one onStart listener.
InitForce ==
  /\ epoch = 0
  /\ ticksSinceNewNodes = 0
  /\ listeners = 1
  /\ rafQueue = <<>>
  /\ scheduled = 0
  /\ framesRun = 0
  /\ listenersAtRun = 0
  /\ notified = NoneNotified
  /\ appliesSinceInit = 0
  /\ alphaSeen = 2
  /\ cfLast = CFRecord("none", NoNodes, NoneNotified, {}, {})

\* initialize(nodes) emptying the list of onStart listeners as well.
ForceInitializeDropsListeners(ticks, ls) == [ticksSinceNewNodes |-> 0, listeners |-> 0]

\* initialize(nodes) leaving the counter where it stands.
ForceInitializeKeepsCounter(ticks, ls) == [ticksSinceNewNodes |-> ticks, listeners |-> ls]

\* BBoxCollisionForce.initialize(nodes): the counter and the number of
\* onStart listeners after it.
ForceInitialize(ticks, ls) == [ticksSinceNewNodes |-> 0, listeners |-> ls]

\* A new graph is set at viewport scale `scale`: its graphics are created at
\* the node positions, allNodeGraphicsCreated rebuilds cache and tree, and
\* the simulation hands the nodes to the force through initialize(nodes).
Initialize(cfg, scale) ==
  LET built == AllNodeGraphicsCreated([i \in NodeIds |-> NoSize], cfg, scale)
  IN  /\ epoch < MaxEpochs
      /\ nodes' = cfg
      /\ viewScale' = scale
      /\ cacheScale' = built.cacheScale
      /\ sizes' = built.sizes
      /\ tree' = built.tree
      /\ treeLeafNodes' = built.treeLeafNodes
      /\ epoch' = epoch + 1
      /\ ticksSinceNewNodes' = ForceInitialize(ticksSinceNewNodes, listeners).ticksSinceNewNodes
      /\ listeners' = ForceInitialize(ticksSinceNewNodes, listeners).listeners
      /\ appliesSinceInit' = 0
      /\ alphaSeen' = 2
      /\ scheduled' = 0
      /\ framesRun' = 0
      /\ listenersAtRun' = 0
      /\ notified' = NoneNotified
      /\ cfLast' = CFRecord("initialize", cfg, NoneNotified, {}, {})
      /\ UNCHANGED rafQueue

\* BBoxCollisionForce.applyForce(alpha), alpha = alpha2 / 2.  The simulation
\* calls it once per tick; its alpha is 1 when a graph has been set
\* (node-graph.ts:242) and only decays from one tick to the next.
ApplyForce(alpha2) ==
  /\ appliesSinceInit < TicksToWait + MaxActiveApplies
  /\ alpha2 <= alphaSeen
  /\ alphaSeen' = alpha2
  /\ UNCHANGED <<viewScale, cacheScale, sizes, tree, treeLeafNodes, epoch,
                 listeners, framesRun, listenersAtRun, notified>>
  /\ IF epoch = 0
       THEN \* if (!this.#nodes || !this.#nodeGraphics) return;
         /\ cfLast' = CFRecord("apply", nodes, notified, {}, {})
         /\ UNCHANGED <<nodes, ticksSinceNewNodes, rafQueue, scheduled,
                        appliesSinceInit>>
     ELSE IF Quiescent(ticksSinceNewNodes)
       THEN
         /\ ticksSinceNewNodes' = ticksSinceNewNodes + 1
         /\ appliesSinceInit' = appliesSinceInit + 1
         /\ cfLast' = CFRecord("apply", nodes, notified, {}, {})
         /\ UNCHANGED <<nodes, rafQueue, scheduled>>
     ELSE
       \E starts \in {StartsNow(ticksSinceNewNodes)},
          out \in {NodeLoop(1, AlphaFactor16(alpha2),
                            [ns |-> nodes, frictions |-> {}, impulses |-> {},
                             forces |-> {}, log |-> <<>>])} :
           /\ rafQueue' = IF starts THEN Append(rafQueue, epoch) ELSE rafQueue
           /\ scheduled' = IF starts THEN scheduled + 1 ELSE scheduled
           /\ ticksSinceNewNodes' = IF starts THEN ticksSinceNewNodes + 1
                                    ELSE ticksSinceNewNodes
           /\ appliesSinceInit' = appliesSinceInit + 1
           /\ nodes' = out.ns
           /\ cfLast' = [CFRecord("apply", nodes, notified, out.frictions,
                                   out.impulses)
                          EXCEPT !.forces = out.forces, !.log = out.log]

\* The browser runs the oldest queued animation-frame callback: the loop
\* over the onStart listeners registered by then.  Listener 1 is the one
\* GraphForceBehaviour adds, which emits 'start-sim' on the channel; the
\* channel listeners in channelThrowers and the onStart listeners in
\* `throwers` throw (none of them, or the first channel listener and every
\* onStart listener added later).  The history counts the calls made on
\* behalf of the current epoch.
Frame(throwers, channelThrowers) ==
  LET emitted == NotifyListeners(Cardinality(ChannelListenerIds), channelThrowers)
      out == NotifyListeners(listeners,
                             throwers \cup (IF emitted.propagated THEN {1} ELSE {}))
  IN  /\ rafQueue # <<>>
      /\ throwers \subseteq 2..listeners
      /\ IF Head(rafQueue) = epoch
           THEN /\ notified' = [l \in ListenerIds |->
                                  IF l \in out.called THEN notified[l] + 1
                                  ELSE notified[l]]
                /\ framesRun' = framesRun + 1
                /\ listenersAtRun' = listeners
           ELSE UNCHANGED <<notified, framesRun, listenersAtRun>>
      /\ rafQueue' = Tail(rafQueue)
      /\ cfLast' = [CFRecord("frame", nodes, notified, {}, {}) EXCEPT
                      !.notice = [threw |-> throwers,
                                  channelThrew |-> channelThrowers,
                                  called |-> out.called,
                                  channelCalled |-> emitted.called,
                                  logged |-> out.logged + emitted.logged,
                                  propagated |-> out.propagated]]
      /\ UNCHANGED <<geoVars, epoch, ticksSinceNewNodes, listeners, scheduled,
                     appliesSinceInit, alphaSeen>>

\* BBoxCollisionForce.onStart(listener)
OnStart ==
  /\ listeners < MaxListeners
  /\ listeners' = listeners + 1
  /\ cfLast' = CFRecord("onStart", nodes, notified, {}, {})
  /\ UNCHANGED <<geoVars, epoch, ticksSinceNewNodes, rafQueue, scheduled, framesRun,
                 listenersAtRun, notified, appliesSinceInit, alphaSeen>>

InitIndex ==
  /\ idxSteps = 0
  /\ idxLast = [op |-> "none", prevOp |-> "none", preTree |-> <<>>,
                preSizes |-> [i \in NodeIds |-> NoSize]]

\* The alphas applyForce is called with next.  Before a graph is set and
\* while the force waits, applyForce returns without reading alpha, and one
\* value stands for all of them.
AlphasNow ==
  IF epoch = 0 \/ Quiescent(ticksSinceNewNodes) THEN {alphaSeen} ELSE Alphas2

NextCF ==
  /\ \/ \E cfg \in GraphsToSet, scale \in ScalesToSet : Initialize(cfg, scale)
     \/ \E alpha2 \in AlphasNow : ApplyForce(alpha2)
     \/ \E throwing \in BOOLEAN :
          Frame(IF throwing THEN 2..listeners ELSE {}, IF throwing THEN {1} ELSE {})
     \/ OnStart
  /\ UNCHANGED <<bmVars, idxVars, ngVars, uiVars, libVars>>

(***************************************************************************)
(* Claims about the BBoxCollisionForce (checked under SpecCF)              *)
(***************************************************************************)

\* A node's bounding box: its local size centred on its graphics.
Box(i) ==
  [x |-> nodes[i].gx - nodes[i].w \div 2, y |-> nodes[i].gy - nodes[i].h \div 2,
   w |-> nodes[i].w, h |-> nodes[i].h]

\* Rectangles a and b are more than m apart along some axis.
Apart(a, b, m) ==
  \/ a.x + a.w + m < b.x
  \/ b.x + b.w + m < a.x
  \/ a.y + a.h + m < b.y
  \/ b.y + b.h + m < a.y

\* The bounding boxes of nodes i and j overlap (or touch).
Overlap(i, j) == ~Apart(Box(i), Box(j), 0)

\* The bounding boxes of nodes i and j are further apart than the margin the
\* force adds on every side of the other node.
MarginClear(i, j) == Apart(Box(i), Box(j), Margin \div 2)

\* The last operation was an applyForce call that ran the force loops.
ActiveApply == cfLast.op = "apply" /\ epoch >= 1 /\ appliesSinceInit > TicksToWait

\* Change of node i's velocity over the last operation.
DeltaV(i) == <<nodes[i].vx - cfLast.pre[i].vx, nodes[i].vy - cfLast.pre[i].vy>>

RECURSIVE SumVx(_, _)
SumVx(ns, i) == IF i = 0 THEN 0 ELSE ns[i].vx + SumVx(ns, i - 1)

RECURSIVE SumVy(_, _)
SumVy(ns, i) == IF i = 0 THEN 0 ELSE ns[i].vy + SumVy(ns, i - 1)

C5_ImpulsesConserveMomentum ==
  (cfLast.op = "apply" /\ cfLast.frictions = {}) =>
    /\ SumVx(nodes, NumNodes) = SumVx(cfLast.pre, NumNodes)
    /\ SumVy(nodes, NumNodes) = SumVy(cfLast.pre, NumNodes)
    /\ \A i, j \in NodeIds :
         (i # j /\ cfLast.impulses \subseteq {<<i, j>>, <<j, i>>}) =>
           /\ DeltaV(i)[1] = -DeltaV(j)[1]
           /\ DeltaV(i)[2] = -DeltaV(j)[2]

\* C5 witness: an applyForce call applied impulses, no friction, and changed
\* a velocity.
C5_Witness ==
  /\ ActiveApply
  /\ cfLast.frictions = {}
  /\ cfLast.impulses # {}
  /\ \E i \in NodeIds : DeltaV(i) # <<0, 0>>

\* C6 as stated: for nodes A and B that overlap and a third node C that
\* overlaps neither, one applyForce call leaves C's velocity unchanged and
\* changes A's and B's velocities by equal and opposite amounts.
C6_ThirdNodeUntouched ==
  cfLast.op = "apply" =>
    \A a, b, c \in NodeIds :
      (a # b /\ a # c /\ b # c /\ Overlap(a, b) /\ ~Overlap(c, a) /\ ~Overlap(c, b)) =>
        /\ DeltaV(c) = <<0, 0>>
        /\ DeltaV(a)[1] = -DeltaV(b)[1]
        /\ DeltaV(a)[2] = -DeltaV(b)[2]

\* C6, amended: for nodes A and B that overlap while every other node is
\* margin-clear of all nodes, one applyForce call in which no pair takes the
\* friction branch leaves the other nodes' velocities unchanged and changes
\* A's and B's velocities by equal and opposite amounts.
C6_IsolatedPairOpposite ==
  (cfLast.op = "apply" /\ cfLast.frictions = {}) =>
    \A a, b \in NodeIds :
      (/\ a # b
       /\ Overlap(a, b)
       /\ \A c \in NodeIds \ {a, b} : \A d \in NodeIds \ {c} : MarginClear(c, d)) =>
        /\ \A c \in NodeIds \ {a, b} : DeltaV(c) = <<0, 0>>
        /\ DeltaV(a)[1] = -DeltaV(b)[1]
        /\ DeltaV(a)[2] = -DeltaV(b)[2]

\* C6 witness: the force loops ran without friction on a graph in which two
\* nodes overlap and the others are margin-clear; the two were pushed.
C6_Witness ==
  /\ ActiveApply
  /\ cfLast.frictions = {}
  /\ \E a, b \in NodeIds :
       /\ a # b
       /\ Overlap(a, b)
       /\ \A c \in NodeIds \ {a, b} : \A d \in NodeIds \ {c} : MarginClear(c, d)
       /\ DeltaV(a) # <<0, 0>>
       /\ DeltaV(b) # <<0, 0>>

\* C7: each of the first ticksToWait (200) applyForce calls after an
\* initialize(nodes) leaves every velocity unchanged.
C7_QuiescentWindow ==
  (cfLast.op = "apply" /\ epoch >= 1 /\ appliesSinceInit <= TicksToWait) =>
    /\ nodes = cfLast.pre
    /\ cfLast.frictions = {}
    /\ cfLast.impulses = {}

\* C7 witness: the 200th applyForce call after a second initialize, on a graph
\* with two overlapping nodes.
C7_Witness ==
  /\ cfLast.op = "apply"
  /\ epoch = 2
  /\ appliesSinceInit = TicksToWait
  /\ \E i, j \in NodeIds : i # j /\ Overlap(i, j)

\* C8: for one initialize(nodes), the onStart listeners are never called
\* inside applyForce; one animation-frame callback is queued, by the call
\* that ends the window and by no other; when it runs, every registered
\* listener is called exactly once, and none is called a second time.
C8_ListenersOncePerNodeSet ==
  /\ cfLast.op = "apply" => notified = cfLast.preNotified
  /\ ticksSinceNewNodes <= TicksToWait => scheduled = 0
  /\ ticksSinceNewNodes > TicksToWait => scheduled = 1
  /\ framesRun <= scheduled
  /\ \A l \in ListenerIds : notified[l] <= 1
  /\ framesRun = 1 => \A l \in ListenerIds : l <= listenersAtRun => notified[l] = 1

\* C8 witness: after a second initialize the window has ended, the queued
\* callback has run with two listeners, and applyForce has been called again.
C8_Witness ==
  /\ cfLast.op = "apply"
  /\ epoch = 2
  /\ appliesSinceInit > TicksToWait + 1
  /\ framesRun = 1
  /\ listenersAtRun = 2
  /\ notified[1] = 1
  /\ notified[2] = 1

(***************************************************************************)
(* Part 4.  GraphNodeBBoxBehaviour: keeping the R*-tree in step            *)
(***************************************************************************)

\* Largest number of graph loads and node moves followed.
MaxIdxSteps == 2

\* Horizontal distances the simulation moves a node by in one tick.
Moves == {-14, 14}

\* What the history keeps of one index operation: the operation before it,
\* and the tree and the cache contents it found.
IdxRecord(op) ==
  [op |-> op, prevOp |-> idxLast.op, preTree |-> tree, preSizes |-> sizes]

\* NodeGraph.setData: new graphics are created at the node positions, then
\* allNodeGraphicsCreated runs.  The cache knows none of the new graphics.
SetData(cfg) ==
  LET built == AllNodeGraphicsCreated([i \in NodeIds |-> NoSize], cfg, viewScale)
  IN  /\ idxSteps < MaxIdxSteps
      /\ idxSteps' = idxSteps + 1
      /\ nodes' = cfg
      /\ cacheScale' = built.cacheScale
      /\ sizes' = built.sizes
      /\ tree' = built.tree
      /\ treeLeafNodes' = built.treeLeafNodes
      /\ idxLast' = IdxRecord("setData")
      /\ UNCHANGED viewScale

\* The first NodeGraph.setData cut short by an exception of a hook that runs
\* before GraphNodeBBoxBehaviour.allNodeGraphicsCreated: the graphics exist,
\* at the node positions, and none of them has a leaf.
AbortedLoad(cfg) ==
  /\ idxSteps = 0
  /\ idxSteps' = idxSteps + 1
  /\ nodes' = cfg
  /\ idxLast' = IdxRecord("aborted")
  /\ UNCHANGED <<viewScale, cacheScale, sizes, tree, treeLeafNodes>>

\* GraphBehaviourManager.allNodeGraphicsCreated() on the graph on screen.
Rebuild ==
  LET built == AllNodeGraphicsCreated(sizes, nodes, viewScale)
  IN  /\ tree # <<>>
      /\ cacheScale' = built.cacheScale
      /\ sizes' = built.sizes
      /\ tree' = built.tree
      /\ treeLeafNodes' = built.treeLeafNodes
      /\ idxLast' = IdxRecord("rebuild")
      /\ UNCHANGED <<nodes, viewScale, idxSteps>>

\* One tick of the simulation, graphics being on screen, that moves node m
\* by dx (m = 0: the nodes are at rest), followed by the 'tick' listener of
\* the behaviour (#updateRStarTree).
SimTick(m, dx) ==
  LET ns == [i \in NodeIds |-> IF i = m THEN [nodes[i] EXCEPT !.x = @ + dx]
                               ELSE nodes[i]]
      out == UpdateRStarTree(ns, viewScale)
  IN  /\ idxSteps > 0
      /\ m # 0 => idxSteps < MaxIdxSteps
      /\ idxSteps' = IF m = 0 THEN idxSteps ELSE idxSteps + 1
      /\ nodes' = ns
      /\ tree' = out.tree
      /\ treeLeafNodes' = out.treeLeafNodes
      /\ sizes' = out.sizes
      /\ idxLast' = IdxRecord("update")
      /\ UNCHANGED <<viewScale, cacheScale>>

\* NodeGraph.render(): every graphics is put at its node's simulation position.
Render ==
  /\ tree # <<>>
  /\ nodes' = [i \in NodeIds |-> [nodes[i] EXCEPT !.gx = nodes[i].x, !.gy = nodes[i].y]]
  /\ idxLast' = IdxRecord("render")
  /\ UNCHANGED <<viewScale, cacheScale, sizes, tree, treeLeafNodes, idxSteps>>

\* The user zooms: viewport.scale changes and the cache hears 'zoomed'.
Zoom(scale) ==
  /\ scale # viewScale
  /\ viewScale' = scale
  /\ cacheScale' = OnZoomed(sizes, scale).cacheScale
  /\ sizes' = OnZoomed(sizes, scale).sizes
  /\ idxLast' = IdxRecord("zoom")
  /\ UNCHANGED <<nodes, tree, treeLeafNodes, idxSteps>>

\* GraphDragBehaviour's pointermove handler while node m is dragged and no
\* other node is selected with it: the node's pinned and simulation position
\* follow the pointer, here by dx along x.  No 'tick' listener runs.
DragMove(m, dx) ==
  /\ tree # <<>>
  /\ idxSteps < MaxIdxSteps
  /\ idxSteps' = idxSteps + 1
  /\ nodes' = [nodes EXCEPT ![m].x = @ + dx]
  /\ idxLast' = IdxRecord("drag")
  /\ UNCHANGED <<viewScale, cacheScale, sizes, tree, treeLeafNodes>>

NextIdx ==
  /\ \/ \E cfg \in NodeConfigs : SetData(cfg)
     \/ \E cfg \in {c \in NodeConfigs : c[2].x = 30 /\ c[3].x = 200} : AbortedLoad(cfg)
     \/ Rebuild
     \/ \E m \in NodeIds \cup {0}, dx \in Moves : SimTick(m, dx)
     \/ \E m \in NodeIds, dx \in Moves : DragMove(m, dx)
     \/ Render
     \/ \E scale \in Scales : Zoom(scale)
  /\ UNCHANGED <<bmVars, cfVars, ngVars, uiVars, libVars>>

(***************************************************************************)
(* Claims about the index (checked under SpecIdx)                          *)
(***************************************************************************)

\* The nodes whose leaf in tree t intersects region r.
FoundIn(t, r) == {TreeSearch(t, r)[k].node : k \in 1..Len(TreeSearch(t, r))}

\* The nodes whose current bounding box intersects region r, by a scan.
ScanIn(r) == {i \in NodeIds : ~Apart(Box(i), r, 0)}

\* The corner points of a rectangle given by its edges.
Corners(minX, minY, maxX, maxY) ==
  {[x |-> px, y |-> py, w |-> 0, h |-> 0] : px \in {minX, maxX}, py \in {minY, maxY}}

\* Regions that tell any two different rectangles apart: the corners of every
\* leaf of t and of every bounding box, and every node's search bounds.
Probes(t) ==
  UNION {Corners(t[k].minX, t[k].minY, t[k].maxX, t[k].maxY) : k \in 1..Len(t)}
    \cup UNION {Corners(Box(i).x, Box(i).y, Box(i).x + Box(i).w, Box(i).y + Box(i).h) :
                  i \in NodeIds}
    \cup {ResizeCentered(Box(i), Margin) : i \in NodeIds}

\* C9, first half: after a rebuild or an update the tree holds exactly one
\* leaf per node and none else, and that leaf is the one the leaf map holds.
C9_OneLeafPerNode ==
  idxLast.op \in {"setData", "rebuild", "update"} =>
    /\ Len(tree) = NumNodes
    /\ \A i \in NodeIds :
         /\ Cardinality({k \in 1..Len(tree) : tree[k].node = i}) = 1
         /\ \E k \in 1..Len(tree) : tree[k] = treeLeafNodes[i]

\* C9, second half: after a rebuild or an update a search of any region
\* returns the nodes a scan of all nodes' bounding boxes finds in it.
C9_SearchMatchesScan ==
  idxLast.op \in {"setData", "rebuild", "update"} =>
    \A r \in Probes(tree) : FoundIn(tree, r) = ScanIn(r)

\* C9: after any sequence of rebuilds and updates the tree holds exactly one
\* leaf per node and none else, and a search of any region returns the nodes
\* a scan of all nodes finds in it.
C9_IndexMatchesScan == C9_OneLeafPerNode /\ C9_SearchMatchesScan

\* C10: a rebuild that directly follows a rebuild, the nodes not having moved,
\* leaves a tree in which every search returns what it returned before.
C10_RebuildIdempotent ==
  (idxLast.op = "rebuild" /\ idxLast.prevOp \in {"setData", "rebuild"}) =>
    /\ Len(tree) = Len(idxLast.preTree)
    /\ \A r \in Probes(tree) \cup Probes(idxLast.preTree) :
         TreeSearch(tree, r) = TreeSearch(idxLast.preTree, r)

\* C10 witness: two rebuilds in a row at viewport scale 2, on nodes whose
\* graphics have been moved since the graph was loaded.
C10_Witness ==
  /\ idxLast.op = "rebuild"
  /\ idxLast.prevOp = "rebuild"
  /\ viewScale = 2
  /\ \E i \in NodeIds : i > 1 /\ nodes[i].gx \notin XPositions

\* The rectangle a leaf stores.
LeafRect(leaf) ==
  [x |-> leaf.minX, y |-> leaf.minY,
   w |-> leaf.maxX - leaf.minX, h |-> leaf.maxY - leaf.minY]

\* C11, position: after updateIndex the leaf of every node is centred on the
\* position its graphics has now.
C11_LeafAtCurrentPosition ==
  idxLast.op = "update" =>
    \A i \in NodeIds :
      /\ treeLeafNodes[i] # NoLeaf
      /\ Center2(LeafRect(treeLeafNodes[i])) = [x |-> 2 * nodes[i].gx, y |-> 2 * nodes[i].gy]

\* C11, size: after updateIndex the leaf of every node has the size the
\* node's bounding box has at the viewport scale of the moment.
C11_LeafHasCurrentSize ==
  idxLast.op = "update" =>
    \A i \in NodeIds :
      /\ treeLeafNodes[i] # NoLeaf
      /\ LeafRect(treeLeafNodes[i]).w = GlobalSize(nodes[i], viewScale).w
      /\ LeafRect(treeLeafNodes[i]).h = GlobalSize(nodes[i], viewScale).h

\* C11: under every interleaving of simulation ticks, render frames and drag
\* moves, after updateIndex completes the leaf of every node describes that
\* node's current bounding box.
C11_LeafDescribesCurrentBox == C11_LeafAtCurrentPosition /\ C11_LeafHasCurrentSize

\* C23, reuse: an entry of the cache is the entry every later get uses until
\* the cache is cleared: no update of the index, render frame or drag move
\* (each of which may have moved the visual) replaces or drops it.
C23_EntriesReused ==
  idxLast.op \in {"update", "render", "drag"} =>
    \A i \in NodeIds : idxLast.preSizes[i] # NoSize => sizes[i] = idxLast.preSizes[i]

\* C23, node-set replacement: after setData or a rebuild the cache holds,
\* for every visual, the entry a first get makes at the scale of the moment.
C23_ClearedOnReplacement ==
  idxLast.op \in {"setData", "rebuild"} =>
    \A i \in NodeIds : sizes[i] = CacheSize(NoSize, nodes[i], viewScale, viewScale)

\* C23, camera scale: a change of the viewport scale clears the cache.
C23_ClearedOnScaleChange ==
  idxLast.op = "zoom" => \A i \in NodeIds : sizes[i] = NoSize

\* C23: a cache entry is reused by every get until the cache is cleared, a
\* change of position never invalidates it, and the cache is cleared on
\* node-set replacement and on a change of the camera scale.
C23_CacheEntries ==
  C23_EntriesReused /\ C23_ClearedOnReplacement /\ C23_ClearedOnScaleChange

\* C23, amended: a change of the viewport scale leaves every entry of the
\* cache as it was; with it, entries are reused until a node-set replacement
\* clears the cache, whatever moves in between.
C23_EntriesKeptUntilReplacement ==
  /\ C23_EntriesReused
  /\ C23_ClearedOnReplacement
  /\ idxLast.op = "zoom" => sizes = idxLast.preSizes

\* C23 witness: the viewport scale has changed right after a render frame
\* that moved a graphics, and the cache holds an entry for every visual.
C23_Witness ==
  /\ idxLast.op = "zoom"
  /\ idxLast.prevOp = "render"
  /\ \E i \in NodeIds : nodes[i].gx \notin XPositions \cup {0}
  /\ \A i \in NodeIds : sizes[i] # NoSize

\* The visuals that had no leaf before the last operation.
Leafless == {i \in NodeIds : \A k \in 1..Len(idxLast.preTree) : idxLast.preTree[k].node # i}

AQ == 1000000

\* alphaDecay(0.02), in percent.
AlphaDecayPercent == 2

\* tick(200) in setData.
WarmStartTicks == 200

\* alpha(4) in setData.
WarmStartAlpha == 4

\* Largest number of timer ticks followed after a setData.
MaxTimerTicks == 2

\* NodePositions.get(id) returning undefined.
NoPosition == [has |-> FALSE, x |-> 0, y |-> 0]

\* appStateManager.get('nodePositions') returning undefined.
NoSnapshot == [present |-> FALSE, at |-> [i \in NodeIds |-> NoPosition]]

\* The position a shared link holds for node i.
SavedPosition(i) == [has |-> TRUE, x |-> 100 + 20 * i, y |-> 40]

\* The snapshots a shared link can carry: one with every node, one without
\* the last node.
Snapshots ==
  {[present |-> TRUE,
    at |-> [i \in NodeIds |-> IF i <= k THEN SavedPosition(i) ELSE NoPosition]] :
     k \in {NumNodes - 1, NumNodes}}

\* The snapshot of the nodes ns where they are (positions are integers, which
\* Math.round leaves as they are).
SnapshotOf(ns) ==
  [present |-> TRUE,
   at |-> [i \in NodeIds |-> [has |-> TRUE, x |-> ns[i].x, y |-> ns[i].y]]]

\* One tick's change of alpha: alpha += (alphaTarget - alpha) * alphaDecay,
\* with alphaTarget 0.
AlphaStep(alpha) == alpha - (alpha * AlphaDecayPercent) \div 100

\* simulation.tick(n) from the state st (alpha and ticks run so far): n ticks
\* one after the other, evaluated as the first half of them followed by the
\* rest.
RECURSIVE TickLoop(_, _)
TickLoop(st, n) ==
  IF n = 0 THEN st
  ELSE IF n = 1 THEN [alpha |-> AlphaStep(st.alpha), ticks |-> st.ticks + 1]
  ELSE LET half == TickLoop(st, n \div 2)
       IN  \* reading the count of the first half before the rest is run
           \* keeps the evaluation shallow
           IF half.ticks >= 0 THEN TickLoop(half, n - n \div 2) ELSE half

\* NodeGraph.#setNodePositions(): the nodes after it and what it returns.
SetNodePositions(ns, snap) ==
  [nodes |-> [i \in NodeIds |->
                IF snap.present /\ snap.at[i].has
                  THEN [ns[i] EXCEPT !.x = snap.at[i].x, !.y = snap.at[i].y]
                  ELSE ns[i]],
   all |-> snap.present /\ \A i \in NodeIds : snap.at[i].has]

\* The warm start without the closing alpha(1).
WarmStartKeepsAlpha ==
  LET ran == TickLoop([alpha |-> WarmStartAlpha * AQ, ticks |-> 0], WarmStartTicks)
  IN  [alphaStart |-> WarmStartAlpha * AQ, ticks |-> ran.ticks,
       alphaEnd |-> ran.alpha, alpha |-> ran.alpha, running |-> TRUE]

\* this.#simulation.alpha(4).restart().tick(200).alpha(1): the alpha it is
\* started at, the ticks it runs, the alpha of its last tick, and the alpha
\* and timer it leaves.
WarmStart ==
  LET ran == TickLoop([alpha |-> WarmStartAlpha * AQ, ticks |-> 0], WarmStartTicks)
  IN  [alphaStart |-> WarmStartAlpha * AQ, ticks |-> ran.ticks,
       alphaEnd |-> ran.alpha, alpha |-> AQ, running |-> TRUE]

\* The forces of the simulation in the order GraphForceBehaviour registers
\* them; 'collide' is the BBoxCollisionForce, whose applyForce queries the
\* index.
ForceNames == <<"link", "charge", "center", "collide">>

\* The listeners of the simulation's 'tick' event in registration order: the
\* one GraphNodeBBoxBehaviour adds, which calls #updateRStarTree.
TickListeners == <<"updateIndex">>

\* What one simulation.tick() calls: the forces, one after the other; it
\* dispatches no event.
TickCalls == ForceNames

\* What one step of the simulation's timer calls: a tick(), and then the
\* listeners of the 'tick' event.
StepCalls == TickCalls \o TickListeners

\* The place of `name` in the calls (0: it is not called).
PlaceOf(name, calls) ==
  IF \E k \in 1..Len(calls) : calls[k] = name
    THEN CHOOSE k \in 1..Len(calls) :
           calls[k] = name /\ \A j \in 1..(k - 1) : calls[j] # name
    ELSE 0

\* What the history keeps of one renderer operation.
NGRecord(op, path, ticks, alphaStart, alphaEnd) ==
  [op |-> op, path |-> path, ticks |-> ticks, alphaStart |-> alphaStart,
   alphaEnd |-> alphaEnd, snap |-> nodePositions, wasFirst |-> firstRender,
   wasRunning |-> simRunning, given |-> nodes, forced |-> 0, by |-> 0,
   calls |-> <<>>]

InitNG ==
  /\ firstRender = TRUE
  /\ nodePositions = NoSnapshot
  /\ simRunning = TRUE
  /\ simAlpha = AQ
  /\ timerTicks = 0
  /\ ngLast = [op |-> "none", path |-> "none", ticks |-> 0, alphaStart |-> 0,
               alphaEnd |-> 0, snap |-> NoSnapshot, wasFirst |-> TRUE,
               wasRunning |-> TRUE, given |-> NoNodes, forced |-> 0, by |-> 0,
               calls |-> <<>>]

\* The page is opened from a shared link: the channel's 'nodePositions' is
\* set from the query string before the first graph arrives.
LoadState(snap) ==
  /\ firstRender
  /\ ~nodePositions.present
  /\ nodePositions' = snap
  /\ ngLast' = NGRecord("loadState", "none", 0, 0, 0)
  /\ UNCHANGED <<geoVars, idxVars, firstRender, simRunning, simAlpha, timerTicks>>

\* The 'request-node-positions' listener: the channel's 'nodePositions'
\* becomes the rounded positions of the simulation's nodes.
RequestNodePositions ==
  /\ tree # <<>>
  /\ nodePositions' = SnapshotOf(nodes)
  /\ ngLast' = NGRecord("requestNodePositions", "none", 0, 0, 0)
  /\ UNCHANGED <<geoVars, idxVars, firstRender, simRunning, simAlpha, timerTicks>>

\* NodeGraph.setData(nodes, links) with the nodes cfg: the graphics are
\* created at the node positions and the index is built, the graph is
\* rendered, and then either the saved positions are put on the nodes and the
\* simulation is stopped (first render, every node found), or the simulation
\* is warm-started; in the warm start the forces displace node m by dx.
NodeGraphSetData(cfg, m, dx) ==
  LET built == AllNodeGraphicsCreated([i \in NodeIds |-> NoSize], cfg, viewScale)
      placed == SetNodePositions(cfg, nodePositions)
      snapshotPath == firstRender /\ placed.all
      start == IF firstRender THEN placed.nodes ELSE cfg
      warmed == [i \in NodeIds |-> IF i = m THEN [start[i] EXCEPT !.x = @ + dx]
                                   ELSE start[i]]
  IN  /\ idxSteps < MaxIdxSteps
      /\ snapshotPath => m = 0 /\ dx = 14
      /\ idxSteps' = idxSteps + 1
      /\ cacheScale' = built.cacheScale
      /\ sizes' = built.sizes
      /\ tree' = built.tree
      /\ treeLeafNodes' = built.treeLeafNodes
      /\ idxLast' = IdxRecord("setData")
      /\ firstRender' = FALSE
      /\ timerTicks' = 0
      /\ IF snapshotPath
           THEN /\ nodes' = placed.nodes
                /\ simRunning' = FALSE
                /\ simAlpha' = simAlpha
                /\ ngLast' = [NGRecord("setData", "snapshot", 0, simAlpha, simAlpha)
                                EXCEPT !.given = cfg]
           ELSE /\ nodes' = warmed
                /\ simRunning' = WarmStart.running
                /\ simAlpha' = WarmStart.alpha
                /\ ngLast' = [NGRecord("setData", "warm", WarmStart.ticks,
                                       WarmStart.alphaStart, WarmStart.alphaEnd)
                                EXCEPT !.given = cfg, !.forced = m, !.by = dx,
                                       !.calls = TickCalls]
      /\ UNCHANGED <<viewScale, nodePositions>>

\* One tick of the running simulation's timer: alpha decays, the forces run
\* and node m moves by dx (m = 0: no node moves), and then the 'tick'
\* listeners run.
TimerTick(m, dx) ==
  /\ simRunning
  /\ timerTicks < MaxTimerTicks
  /\ SimTick(m, dx)
  /\ timerTicks' = timerTicks + 1
  /\ simAlpha' = AlphaStep(simAlpha)
  /\ ngLast' = [NGRecord("tick", "none", 1, simAlpha, AlphaStep(simAlpha))
                  EXCEPT !.forced = m, !.by = dx, !.calls = StepCalls]
  /\ UNCHANGED <<firstRender, nodePositions, simRunning>>

\* application.ticker: a render frame.
TickerRender ==
  /\ Render
  /\ ngLast' = NGRecord("render", "none", 0, 0, 0)
  /\ UNCHANGED <<firstRender, nodePositions, simRunning, simAlpha, timerTicks>>

\* The graphs handed to setData: any graph at first; afterwards the graph on
\* screen is set again (a reload), its nodes where they are.
GraphsToLoad ==
  IF firstRender THEN NodeConfigs ELSE {[i \in NodeIds |-> NewNode(i, nodes[i].x)]}

\* The node the forces move in a tick or a warm start (0: none).
MovedByForces == {0, 2}

NextNG ==
  /\ \/ \E snap \in Snapshots : LoadState(snap)
     \/ RequestNodePositions
     \/ \E cfg \in GraphsToLoad, m \in MovedByForces : NodeGraphSetData(cfg, m, 14)
     \/ \E m \in MovedByForces : TimerTick(m, 14)
     \/ TickerRender
  /\ UNCHANGED <<bmVars, cfVars, uiVars, libVars>>

(***************************************************************************)
(* Claims about NodeGraph.setData (checked under SpecNG)                   *)
(***************************************************************************)

\* The saved snapshot covered every node when the last setData was called.
Covered == ngLast.snap.present /\ \A i \in NodeIds : ngLast.snap.at[i].has

\* C12, first load: a first setData under a covering snapshot runs no
\* warm-start tick, leaves the simulation stopped and every node of the
\* simulation at its saved position.
C12_FirstLoadStopsAtSnapshot ==
  (ngLast.op = "setData" /\ Covered /\ ngLast.wasFirst) =>
    /\ ngLast.path = "snapshot"
    /\ ngLast.ticks = 0
    /\ ~simRunning
    /\ \A i \in NodeIds : /\ nodes[i].x = ngLast.snap.at[i].x
                          /\ nodes[i].y = ngLast.snap.at[i].y

\* C12, path: every setData called while the saved snapshot covers every
\* node runs no warm-start tick and leaves the simulation stopped.
C12_EverySetDataStops ==
  (ngLast.op = "setData" /\ Covered) =>
    /\ ngLast.path = "snapshot"
    /\ ngLast.ticks = 0
    /\ ~simRunning

\* C12, visuals: when such a setData returns, the position of every node's
\* graphics is the saved position of its node.
C12_VisualsAtSnapshot ==
  (ngLast.op = "setData" /\ Covered) =>
    \A i \in NodeIds : /\ nodes[i].gx = ngLast.snap.at[i].x
                       /\ nodes[i].gy = ngLast.snap.at[i].y

\* C12: every setData made while a saved snapshot covers every supplied node
\* applies the snapshot and stops the simulation without a warm-start tick,
\* and on return every node visual is at its node's saved position.
C12_SnapshotApplied == C12_EverySetDataStops /\ C12_VisualsAtSnapshot

Partial == ngLast.snap.present /\ \E i \in NodeIds : ~ngLast.snap.at[i].has

\* Where the last setData leaves the nodes it was given when no position is
\* saved: where they were given, moved by what the forces of the warm start
\* did.
LayoutWithoutSnapshot ==
  [i \in NodeIds |->
     [x |-> ngLast.given[i].x + (IF i = ngLast.forced THEN ngLast.by ELSE 0),
      y |-> ngLast.given[i].y]]

\* C27, path: a first setData under a snapshot that lacks a node runs the
\* warm start, 200 ticks, and leaves the simulation running.
C27_PartialSnapshotWarmStarts ==
  (ngLast.op = "setData" /\ ngLast.wasFirst /\ Partial) =>
    /\ ngLast.path = "warm"
    /\ ngLast.ticks = WarmStartTicks
    /\ simRunning

\* C27: a setData under a snapshot that lacks a position for a supplied node
\* takes no node position from the snapshot: it warm-starts, and the nodes
\* end where the warm start puts them when no position is saved.
C27_PartialSnapshotFallsBack ==
  (ngLast.op = "setData" /\ Partial) =>
    /\ ngLast.path = "warm"
    /\ \A i \in NodeIds : /\ nodes[i].x = LayoutWithoutSnapshot[i].x
                          /\ nodes[i].y = LayoutWithoutSnapshot[i].y

\* C29, refresh: every timer tick of the simulation refreshes the index, and
\* the refresh sees the positions the tick has left.
C29_EveryTimerTickRefreshes ==
  ngLast.op = "tick" =>
    /\ PlaceOf("updateIndex", ngLast.calls) > 0
    /\ idxLast.op = "update"
    /\ \A i \in NodeIds :
         nodes[i].x = ngLast.given[i].x + (IF i = ngLast.forced THEN ngLast.by ELSE 0)

\* C29: in every simulation tick the index refresh runs before the collision
\* force's applyForce.
C29_RefreshBeforeCollide ==
  ngLast.op = "tick" =>
    /\ PlaceOf("updateIndex", ngLast.calls) > 0
    /\ PlaceOf("updateIndex", ngLast.calls) < PlaceOf("collide", ngLast.calls)

(***************************************************************************)
(* Part 6.  GraphDragBehaviour, GraphSelectionBehaviour and                *)
(*          GraphNodeTintBehaviour                                         *)
(*                                                                         *)
(* The viewport is at scale 1 and not translated, so positions local to    *)
(* the viewport and global positions are the same.  The behaviours are     *)
(* registered in the order drag, selection, tint, so their handlers of one *)
(* event run in that order.  One graph is on screen throughout.            *)
(***************************************************************************)

\* GraphSelectionBehaviour.#clickThresholdDistance
ClickThresholdDistance == 10

\* Largest number of pointer-downs, selection rectangles and Escape keys
\* followed.
MaxGestures == 2

\* Largest number of pointer-moves followed while a node is pressed.
MaxPointerMoves == 2

\* d3Node.fx = d3Node.fy = null
NoPin == [set |-> FALSE, x |-> 0, y |-> 0]

\* d3Node.fx = p.x, d3Node.fy = p.y
Pin(p) == [set |-> TRUE, x |-> p.x, y |-> p.y]

\* Where on a node the pointer goes down, from the node's centre.
GrabOffsets == {[x |-> 4, y |-> -2]}

\* What the pointer moves by between two pointermove events.
PointerSteps == {[x |-> 4, y |-> 0], [x |-> 0, y |-> 6]}

\* The nodes the pointer comes over and goes down on.
PressedNodes == {1, 2}

\* The rectangles drawn for a selection: one inside the box of node 1, one
\* across it from top to bottom, and one over its right half and everything
\* to the right of it.
SelectionRectangles ==
  {[x |-> -4, y |-> -4, w |-> 8, h |-> 8],
   [x |-> -2, y |-> -40, w |-> 4, h |-> 100],
   [x |-> 10, y |-> -40, w |-> 300, h |-> 100]}

\* Vector2D.add
VAdd(a, b) == [x |-> a.x + b.x, y |-> a.y + b.y]

\* Vector2D.subtract
VSubtract(a, b) == [x |-> a.x - b.x, y |-> a.y - b.y]

\* Vector2D.distance, rounded down.
Distance(a, b) ==
  Sqrt((a.x - b.x) * (a.x - b.x) + (a.y - b.y) * (a.y - b.y))

\* Rect2D.containsPoint
ContainsPoint(r, p) ==
  /\ p.x >= r.x
  /\ p.x <= r.x + r.w
  /\ p.y >= r.y
  /\ p.y <= r.y + r.h

\* Rect2D.intersectsRect: r holds a corner of o.
IntersectsRect(r, o) ==
  \/ ContainsPoint(r, [x |-> o.x, y |-> o.y])
  \/ ContainsPoint(r, [x |-> o.x + o.w, y |-> o.y])
  \/ ContainsPoint(r, [x |-> o.x, y |-> o.y + o.h])
  \/ ContainsPoint(r, [x |-> o.x + o.w, y |-> o.y + o.h])

\* NodeSelection.select(node): clear(), then add(node).
SelectionSelect(sel, n) == {n}

\* The position of a simulation node.
PositionOf(ns, i) == [x |-> ns[i].x, y |-> ns[i].y]

\* The pointermove handler's moves with every other selected node put where
\* the dragged node is put.
MoveDraggedNoOffset(ns, fx, sel, d, newPosition) ==
  LET others == IF d \in sel THEN sel \ {d} ELSE {}
  IN  [nodes |-> [i \in NodeIds |->
                    IF i = d \/ i \in others
                      THEN [ns[i] EXCEPT !.x = newPosition.x, !.y = newPosition.y]
                      ELSE ns[i]],
       fixed |-> [i \in NodeIds |->
                    IF i = d \/ i \in others THEN Pin(newPosition) ELSE fx[i]]]

\* The body of GraphDragBehaviour's pointermove handler: the dragged node d is
\* pinned and put at newPosition; when d is selected, every other selected
\* node is pinned and put at newPosition plus its offset from where d was.
MoveDragged(ns, fx, sel, d, newPosition) ==
  LET d3Pos == PositionOf(ns, d)
      others == IF d \in sel THEN sel \ {d} ELSE {}
      target == [i \in NodeIds |->
                   IF i = d THEN newPosition
                   ELSE VAdd(newPosition, VSubtract(PositionOf(ns, i), d3Pos))]
  IN  [nodes |-> [i \in NodeIds |->
                    IF i = d \/ i \in others
                      THEN [ns[i] EXCEPT !.x = target[i].x, !.y = target[i].y]
                      ELSE ns[i]],
       fixed |-> [i \in NodeIds |->
                    IF i = d \/ i \in others THEN Pin(target[i]) ELSE fx[i]]]

\* The pointerup handler's loop over the selection: every pass is skipped by
\* `if (graphics === graphics) continue`, so no pin is changed.
ReleaseSelected(fx, sel, d) == fx

\* The tints of a node that nothing has touched: 0xffffff.
NoTint == [graphics |-> "default", text |-> "default"]

\* `selection.has(graphics) ? selection.tint : 0xffffff`
RestoredTint(sel, n) == IF n \in sel THEN "selected" ELSE "default"

\* The graphics tints after NodeSelection.clear() of the selection `cleared`
\* followed by NodeSelection.add of every node of `added`.
Retint(t, cleared, added) ==
  [i \in NodeIds |->
     IF i \in added THEN [t[i] EXCEPT !.graphics = "selected"]
     ELSE IF i \in cleared THEN [t[i] EXCEPT !.graphics = "default"]
     ELSE t[i]]

\* The mouseout handler restoring the tint during a press as well.
MouseOutTintAlways(t, sel, n, dragging) ==
  [t EXCEPT ![n].graphics = RestoredTint(sel, n)]

\* The tints after the mouseout handler of node n.
MouseOutTint(t, sel, n, dragging) ==
  IF ~dragging THEN [t EXCEPT ![n].graphics = RestoredTint(sel, n)] ELSE t

\* The tints after the tint behaviour's viewport handlers of every node,
\* `dragging` being the drag state they read: 'pointerup' (withText) and
\* 'pointerupoutside'.
ReleaseTint(t, sel, dragging, withText) ==
  [i \in NodeIds |->
     [graphics |-> IF dragging THEN RestoredTint(sel, i) ELSE t[i].graphics,
      text |-> IF withText THEN "default" ELSE t[i].text]]

\* GraphSelectionBehaviour.#selectNode() for the pressed node n: the
\* selection and the channel's 'sidebarArticle' after it.
SelectNode(sel, n) ==
  IF n = 0 THEN [selection |-> sel, sidebarArticle |-> sidebarArticle, published |-> FALSE]
  ELSE IF n \in sel
    THEN [selection |-> {}, sidebarArticle |-> 0, published |-> TRUE]
    ELSE [selection |-> SelectionSelect(sel, n), sidebarArticle |-> n,
          published |-> TRUE]

\* What the history keeps of one pointer or key operation: the node and
\* rectangle it was about, the selection and nodes before it, the nodes
\* pinned and the distance the pointer has moved since the last pointer-down,
\* whether it was taken as a click, whether it set a value on the channel,
\* and whether a drag was under way.
UIRecord(op, n, r, pinned, travel, click, published) ==
  [op |-> op, node |-> n, rect |-> r, preSelection |-> selection,
   pre |-> IF op = "move" THEN nodes ELSE NoNodes,
   pinned |-> pinned, travel |-> travel, click |-> click,
   published |-> published, wasDragging |-> isDragging,
   tintBefore |-> IF n = 0 THEN "none" ELSE tint[n].graphics]

InitUI ==
  /\ selection = {}
  /\ fixed = [i \in NodeIds |-> NoPin]
  /\ dragPaused = FALSE
  /\ isDragging = FALSE
  /\ dragged = 0
  /\ anchorOffset = [x |-> 0, y |-> 0]
  /\ isMouseDown = FALSE
  /\ distanceTravelled = 0
  /\ lastPosition = [x |-> 0, y |-> 0]
  /\ pressed = 0
  /\ pointer = [x |-> 0, y |-> 0]
  /\ sidebarArticle = 0
  /\ gestures = 0
  /\ pointerMoves = 0
  /\ tint = [i \in NodeIds |-> NoTint]
  /\ hovered = 0
  /\ uiLast = [op |-> "none", node |-> 0, rect |-> NoRect, preSelection |-> {},
               pre |-> NoNodes, pinned |-> {}, travel |-> 0, click |-> FALSE,
               published |-> FALSE, wasDragging |-> FALSE, tintBefore |-> "none"]

\* The graphs the pointer works on: node 2 next to node 1 or in the far
\* column, every other node in the far column.
InteractionGraphs ==
  {cfg \in NodeConfigs : cfg[2].x \in {30, 200} /\ \A i \in NodeIds : i > 2 => cfg[i].x = 200}

\* The first graph arrives: NodeGraph.setData.
LoadGraph(cfg) ==
  /\ tree = <<>>
  /\ NodeGraphSetData(cfg, 0, 14)
  /\ UNCHANGED uiVars

\* A render frame between two presses (a frame during a press changes
\* nothing that the handlers of the press read).
UIRender ==
  /\ ~isMouseDown
  /\ ~isDragging
  /\ \E i \in NodeIds : nodes[i].gx # nodes[i].x \/ nodes[i].gy # nodes[i].y
  /\ TickerRender
  /\ UNCHANGED uiVars

\* 'pointerdown' on the graphics of node n, which the pointer is over, at
\* `offset` from the centre of the graphics, a frame after the nodes last
\* moved: the handlers of the drag, the selection and the tint behaviour.
PointerDown(n, offset) ==
  LET at == [x |-> nodes[n].gx + offset.x, y |-> nodes[n].gy + offset.y]
  IN  /\ tree # <<>>
      /\ hovered = n
      /\ ~isMouseDown
      /\ ~isDragging
      /\ \A i \in NodeIds : nodes[i].gx = nodes[i].x /\ nodes[i].gy = nodes[i].y
      /\ gestures < MaxGestures
      /\ gestures' = gestures + 1
      /\ pointer' = at
      /\ dragPaused' = TRUE
      /\ isDragging' = TRUE
      /\ anchorOffset' = VSubtract(at, [x |-> nodes[n].gx, y |-> nodes[n].gy])
      /\ dragged' = n
      /\ isMouseDown' = TRUE
      /\ lastPosition' = at
      /\ pressed' = n
      /\ tint' = [tint EXCEPT ![n] = [graphics |-> "pressed", text |-> "pressed"]]
      /\ uiLast' = UIRecord("down", n, NoRect, {}, 0, FALSE, FALSE)
      /\ UNCHANGED <<geoVars, idxVars, ngVars, selection, fixed, distanceTravelled,
                     sidebarArticle, pointerMoves, hovered>>

\* 'pointermove' on the viewport, the pointer moving by `step`, while a node
\* is pressed.
PointerMove(step) ==
  LET at == VAdd(pointer, step)
      drags == isDragging /\ dragged # 0
      moved == MoveDragged(nodes, fixed, selection, dragged,
                           VSubtract(at, anchorOffset))
      tracks == isMouseDown /\ distanceTravelled < ClickThresholdDistance
  IN  /\ isMouseDown \/ isDragging
      /\ pointerMoves < MaxPointerMoves
      /\ pointerMoves' = pointerMoves + 1
      /\ pointer' = at
      /\ nodes' = IF drags THEN moved.nodes ELSE nodes
      /\ fixed' = IF drags THEN moved.fixed ELSE fixed
      /\ distanceTravelled' =
           IF tracks THEN distanceTravelled + Distance(lastPosition, at)
           ELSE distanceTravelled
      /\ lastPosition' = IF tracks THEN at ELSE lastPosition
      /\ uiLast' = UIRecord("move", dragged, NoRect,
                            IF drags
                              THEN uiLast.pinned \cup {dragged}
                                     \cup (IF dragged \in selection THEN selection ELSE {})
                              ELSE uiLast.pinned,
                            uiLast.travel + Distance(pointer, at), FALSE, FALSE)
      /\ UNCHANGED <<viewScale, cacheScale, sizes, tree, treeLeafNodes, idxVars, ngVars,
                     selection, dragPaused, isDragging, dragged, anchorOffset,
                     isMouseDown, pressed, sidebarArticle, gestures, tint, hovered>>

\* 'pointerup' on the viewport while a node is pressed.
PointerUp ==
  LET drags == isDragging /\ dragged # 0
      click == isMouseDown /\ distanceTravelled < ClickThresholdDistance
      chosen == SelectNode(selection, pressed)
  IN  /\ isMouseDown \/ isDragging
      /\ dragPaused' = IF drags THEN FALSE ELSE dragPaused
      /\ isDragging' = IF drags THEN FALSE ELSE isDragging
      /\ fixed' = IF drags
                    THEN IF dragged \in selection
                           THEN ReleaseSelected([fixed EXCEPT ![dragged] = NoPin],
                                                selection, dragged)
                           ELSE [fixed EXCEPT ![dragged] = NoPin]
                    ELSE fixed
      /\ isMouseDown' = FALSE
      /\ selection' = IF click THEN chosen.selection ELSE selection
      /\ sidebarArticle' = IF click THEN chosen.sidebarArticle ELSE sidebarArticle
      /\ distanceTravelled' = IF isMouseDown THEN 0 ELSE distanceTravelled
      /\ tint' = ReleaseTint(IF click /\ chosen.published
                               THEN Retint(tint, selection, chosen.selection)
                               ELSE tint,
                             selection', isDragging', TRUE)
      /\ uiLast' = UIRecord("up", pressed, NoRect, uiLast.pinned, uiLast.travel,
                            click, click /\ chosen.published)
      /\ UNCHANGED <<geoVars, idxVars, ngVars, dragged, anchorOffset, lastPosition,
                     pressed, pointer, gestures, pointerMoves, hovered>>

\* 'pointerupoutside' on the viewport while a node is pressed: the pointer
\* is released outside the canvas, so over no node.
PointerUpOutside ==
  /\ isMouseDown \/ isDragging
  /\ hovered = 0
  /\ isDragging' = FALSE
  /\ tint' = ReleaseTint(tint, selection, isDragging', FALSE)
  /\ fixed' = IF isDragging /\ dragged # 0 THEN [fixed EXCEPT ![dragged] = NoPin]
              ELSE fixed
  /\ isMouseDown' = FALSE
  /\ uiLast' = UIRecord("upOutside", pressed, NoRect, uiLast.pinned, uiLast.travel,
                        FALSE, FALSE)
  /\ UNCHANGED <<geoVars, idxVars, ngVars, selection, dragPaused, dragged, anchorOffset,
                 distanceTravelled, lastPosition, pressed, pointer, sidebarArticle,
                 gestures, pointerMoves, hovered>>

\* The channel's 'selection' event with rectangle r, no node being pressed.
SelectionEvent(r) ==
  /\ tree # <<>>
  /\ ~isMouseDown
  /\ gestures < MaxGestures
  /\ gestures' = gestures + 1
  /\ selection' = {i \in NodeIds : IntersectsRect(r, Box(i))}
  /\ tint' = Retint(tint, selection, selection')
  /\ uiLast' = UIRecord("rect", 0, r, uiLast.pinned, uiLast.travel, FALSE, FALSE)
  /\ UNCHANGED <<geoVars, idxVars, ngVars, fixed, dragPaused, isDragging, dragged,
                 anchorOffset, isMouseDown, distanceTravelled, lastPosition, pressed,
                 pointer, sidebarArticle, pointerMoves, hovered>>

\* 'keydown' with the key Escape.
Escape ==
  /\ tree # <<>>
  /\ gestures < MaxGestures
  /\ gestures' = gestures + 1
  /\ selection' = {}
  /\ tint' = Retint(tint, selection, {})
  /\ uiLast' = UIRecord("escape", 0, NoRect, uiLast.pinned, uiLast.travel, FALSE, FALSE)
  /\ UNCHANGED <<geoVars, idxVars, ngVars, fixed, dragPaused, isDragging, dragged,
                 anchorOffset, isMouseDown, distanceTravelled, lastPosition, pressed,
                 pointer, sidebarArticle, pointerMoves, hovered>>

\* 'mouseover' on the graphics of node n: the pointer comes over it.
MouseOver(n) ==
  /\ tree # <<>>
  /\ hovered = 0
  /\ hovered' = n
  /\ tint' = IF ~isDragging THEN [tint EXCEPT ![n].graphics = "hovered"] ELSE tint
  /\ uiLast' = UIRecord("over", n, NoRect, uiLast.pinned, uiLast.travel, FALSE, FALSE)
  /\ UNCHANGED <<geoVars, idxVars, ngVars, selection, fixed, dragPaused, isDragging,
                 dragged, anchorOffset, isMouseDown, distanceTravelled, lastPosition,
                 pressed, pointer, sidebarArticle, gestures, pointerMoves>>

\* 'mouseout' on the graphics of node n: the pointer leaves it.
MouseOut(n) ==
  /\ hovered = n
  /\ hovered' = 0
  /\ tint' = MouseOutTint(tint, selection, n, isDragging)
  /\ uiLast' = UIRecord("out", n, NoRect, uiLast.pinned, uiLast.travel, FALSE, FALSE)
  /\ UNCHANGED <<geoVars, idxVars, ngVars, selection, fixed, dragPaused, isDragging,
                 dragged, anchorOffset, isMouseDown, distanceTravelled, lastPosition,
                 pressed, pointer, sidebarArticle, gestures, pointerMoves>>

NextUI ==
  /\ \/ \E cfg \in InteractionGraphs : LoadGraph(cfg)
     \/ UIRender
     \/ \E n \in PressedNodes : MouseOver(n)
     \/ \E n \in PressedNodes : MouseOut(n)
     \/ \E n \in PressedNodes, offset \in GrabOffsets : PointerDown(n, offset)
     \/ \E step \in PointerSteps : PointerMove(step)
     \/ PointerUp
     \/ PointerUpOutside
     \/ \E r \in SelectionRectangles : SelectionEvent(r)
     \/ Escape
  /\ UNCHANGED <<bmVars, cfVars, libVars>>

(***************************************************************************)
(* Claims about dragging and selecting (checked under SpecUI)              *)
(***************************************************************************)

\* How far node i has been moved by the last pointer-move.
MovedBy(i) == VSubtract(PositionOf(nodes, i), PositionOf(uiLast.pre, i))

\* The last operation was a pointer-move that dragged a selected node.
DraggedSelected ==
  /\ uiLast.op = "move"
  /\ uiLast.wasDragging
  /\ uiLast.node \in uiLast.preSelection

\* C14: a pointer-move that drags a selected node A moves every other
\* selected node by exactly what it moves A by, so the offsets between the
\* selected nodes are what they were.
C14_SelectedMoveTogether ==
  DraggedSelected =>
    /\ \A b \in uiLast.preSelection : MovedBy(b) = MovedBy(uiLast.node)
    /\ \A a, b \in uiLast.preSelection :
         VSubtract(PositionOf(nodes, a), PositionOf(nodes, b))
           = VSubtract(PositionOf(uiLast.pre, a), PositionOf(uiLast.pre, b))

\* C14 witness: a selected node is dragged along both axes in the course of a
\* press, another node, elsewhere, being selected with it.
C14_Witness ==
  /\ DraggedSelected
  /\ nodes[uiLast.node].x # nodes[uiLast.node].gx
  /\ nodes[uiLast.node].y # nodes[uiLast.node].gy
  /\ \E b \in uiLast.preSelection :
       /\ b # uiLast.node
       /\ PositionOf(nodes, b) # PositionOf(nodes, uiLast.node)
       /\ MovedBy(b) # [x |-> 0, y |-> 0]

\* C15: after the pointer-up that ends a drag, no node that the drag pinned
\* is pinned any more.
C15_PointerUpUnpinsAll ==
  (uiLast.op = "up" /\ uiLast.wasDragging) =>
    \A i \in uiLast.pinned : fixed[i] = NoPin

\* C15, the dragged node alone: after the pointer-up that ends a drag the
\* dragged node is not pinned.
C15_PointerUpUnpinsDragged ==
  (uiLast.op = "up" /\ uiLast.wasDragging) => fixed[uiLast.node] = NoPin

\* C16: after every press on a node that has ended, with the pointer-up
\* inside or outside, camera panning is not paused.
C16_PanningResumed ==
  (uiLast.op \in {"up", "upOutside"} /\ uiLast.wasDragging) => ~dragPaused

\* C16, inside: a pointer-down on a node pauses camera panning and the
\* pointer-up inside resumes it.
C16_PausedThenResumedInside ==
  /\ uiLast.op = "down" => dragPaused
  /\ (uiLast.op = "up" /\ uiLast.wasDragging) => ~dragPaused

\* The selection is what a click on the pressed node makes of the selection
\* before the pointer-up.
Toggled ==
  IF uiLast.node \in uiLast.preSelection
    THEN uiLast.node \notin selection
    ELSE selection = {uiLast.node}

\* C17: a click on a node, the pointer pressed and released without moving,
\* makes the selection exactly that node when the node was not selected, and
\* leaves the node unselected when it was.
C17_ClickToggles ==
  (uiLast.op = "up" /\ uiLast.travel = 0) => Toggled

\* C17, #selectNode: every press that the behaviour takes as a click toggles
\* the selection in that way.
C17_TakenAsClickToggles ==
  (uiLast.op = "up" /\ uiLast.click) => Toggled

\* C18: at the pointer-up of a press on a node, the selection is unchanged
\* when the pointer has travelled more than 10 since the pointer-down, and is
\* toggled when it has not.
C18_TravelDecidesClick ==
  uiLast.op = "up" =>
    /\ uiLast.travel > ClickThresholdDistance => selection = uiLast.preSelection
    /\ uiLast.travel <= ClickThresholdDistance => Toggled

\* C18, pan half: a press in which the pointer travels more than 10 leaves the
\* selection as it was.
C18_LongTravelKeepsSelection ==
  (uiLast.op = "up" /\ uiLast.travel > ClickThresholdDistance) =>
    selection = uiLast.preSelection

\* C18, click half away from the threshold: a press in which the pointer
\* travels less than 10 toggles the selection.
C18_ShortTravelToggles ==
  (uiLast.op = "up" /\ uiLast.travel < ClickThresholdDistance) => Toggled

\* C19: after a selection-rectangle event the selection is exactly the set of
\* nodes whose bounding box intersects the rectangle.
C19_RectangleSelectsIntersecting ==
  uiLast.op = "rect" =>
    selection = {i \in NodeIds : ~Apart(uiLast.rect, Box(i), 0)}

\* C19, replacing: after a selection-rectangle event no node is selected
\* whose bounding box does not intersect the rectangle.
C19_NothingElseSelected ==
  uiLast.op = "rect" =>
    \A i \in selection : ~Apart(uiLast.rect, Box(i), 0)

\* C20: every operation of the selection behaviour that changes the selection
\* (a click, a selection rectangle, Escape) sets a value on the channel.
C20_SelectionChangesPublished ==
  (uiLast.op \in {"up", "rect", "escape"} /\ selection # uiLast.preSelection) =>
    uiLast.published

\* C20, clicks: every click that changes the selection sets the channel's
\* 'sidebarArticle'.
C20_ClicksPublished ==
  (uiLast.op = "up" /\ selection # uiLast.preSelection) =>
    /\ uiLast.published
    /\ sidebarArticle = (IF selection = {} THEN 0 ELSE uiLast.node)

\* The tint of the highest-priority state that holds for node n when no node
\* is pressed: hovered, else selected, else default.
HeldTint(n) == IF hovered = n THEN "hovered" ELSE RestoredTint(selection, n)

\* C21: a pointer-out from the node the pointer button is pressed on leaves
\* the tint of that node as it was.
C21_PointerOutKeepsTint ==
  (uiLast.op = "out" /\ uiLast.wasDragging /\ uiLast.node = dragged) =>
    tint[uiLast.node].graphics = uiLast.tintBefore

\* C21 witness: the pointer has left the pressed node, which shows the
\* pressed tint.
C21_Witness ==
  /\ uiLast.op = "out"
  /\ uiLast.wasDragging
  /\ uiLast.node = dragged
  /\ isDragging
  /\ tint[dragged].graphics = "pressed"

\* C22: after the pointer-up that ends a press on a node, the node shows the
\* tint of the highest-priority state that holds for it: hovered if the
\* pointer is over it, else selected if it is selected, else default.
C22_PointerUpRestoresTint ==
  (uiLast.op = "up" /\ uiLast.node # 0) =>
    tint[uiLast.node].graphics = HeldTint(uiLast.node)

\* What the code does keep of C22: after a pointer-up taken as a click, the
\* clicked node does not show the pressed tint.
C22_ClickEndsPressedTint ==
  (uiLast.op = "up" /\ uiLast.click /\ uiLast.node # 0) =>
    tint[uiLast.node].graphics # "pressed"

(***************************************************************************)
(* Claims about listeners and node-set replacement (checked under SpecCF)  *)
(***************************************************************************)

\* C25: when listeners throw during a notification, every listener is still
\* called (the onStart listeners of the force and the listeners of the
\* channel event emitted by one of them), one warning is logged per listener
\* that threw, and no exception leaves the notification.
C25_ThrowingListenerIsolated ==
  cfLast.op = "frame" =>
    /\ cfLast.notice.called = 1..listeners
    /\ cfLast.notice.channelCalled = ChannelListenerIds
    /\ cfLast.notice.logged =
         Cardinality(cfLast.notice.threw) + Cardinality(cfLast.notice.channelThrew)
    /\ ~cfLast.notice.propagated

\* C25 witness: the callback has run with two onStart listeners; the first
\* listener of the channel event threw and so did the second onStart
\* listener; all were called.
C25_Witness ==
  /\ cfLast.op = "frame"
  /\ listeners = 2
  /\ cfLast.notice.threw = {2}
  /\ cfLast.notice.channelThrew = {1}
  /\ cfLast.notice.called = {1, 2}
  /\ cfLast.notice.channelCalled = {1, 2}
  /\ notified[2] = 1

\* C28: initialize(nodes) sets the quiescence counter to zero and empties the
\* list of onStart listeners.
C28_ReplacementResetsListeners ==
  cfLast.op = "initialize" =>
    /\ ticksSinceNewNodes = 0
    /\ listeners = 0

\* C28, amended: initialize(nodes) sets the quiescence counter to zero and
\* keeps the onStart listeners; when the callback queued for the new node set
\* runs, every listener, whenever registered, is called once for it.
C28_ReplacementKeepsListeners ==
  /\ cfLast.op = "initialize" =>
       /\ ticksSinceNewNodes = 0
       /\ listeners = cfLast.preListeners
       /\ listeners >= 1
  /\ (cfLast.op = "frame" /\ framesRun = 1 /\ cfLast.preNotified = NoneNotified) =>
       \A l \in ListenerIds : l <= listeners => notified[l] = 1

\* C28 witness: a second initialize found the counter past the window and
\* two listeners registered, and left the counter at zero.
C28_Witness ==
  /\ cfLast.op = "initialize"
  /\ epoch = 2
  /\ cfLast.preTicks > TicksToWait
  /\ cfLast.preListeners = 2
  /\ ticksSinceNewNodes = 0

(***************************************************************************)
(* Claims about the size of the impulse (checked under SpecCF)             *)
(***************************************************************************)

\* The square of the magnitude of the impulse f, in 1/Q.
ForceSquared(f) == f[3] * f[3] + f[4] * f[4]

\* The impulse f is no larger than `limit`.  direction.magnitude is held
\* rounded down to a hundredth and is at least 1/2 (twice the direction has
\* whole coordinates), so the normalised direction is up to one fiftieth
\* longer than 1, and the impulse with it.
AtMost(f, limit) ==
  ForceSquared(f) <= (limit * Q + (limit * Q) \div 50) * (limit * Q + (limit * Q) \div 50)

\* C30: every impulse applyForce applies to a node for one candidate has a
\* magnitude of at most 1.
C30_ImpulseAtMostOne ==
  cfLast.op = "apply" => \A f \in cfLast.forces : AtMost(f, 1)

\* C30, amended: every impulse applyForce applies to a node for one candidate
\* has a magnitude of at most the configured strength, 2: the magnitude is
\* clamped to 1 before it is multiplied by the strength.
C30_ImpulseAtMostStrength ==
  cfLast.op = "apply" => \A f \in cfLast.forces : AtMost(f, Strength)

\* C30 witness: an impulse larger than 1 was applied.
C30_Witness ==
  /\ cfLast.op = "apply"
  /\ \E f \in cfLast.forces : ~AtMost(f, 1) /\ AtMost(f, Strength)

(***************************************************************************)
(* Claims about the friction branch (checked under SpecCF)                 *)
(***************************************************************************)

\* The interactions of the last applyForce that took the friction branch.
FrictionSteps == {k \in 1..Len(cfLast.log) : cfLast.log[k].kind = "friction"}

\* C31: an interaction whose force is below 0.01 multiplies the velocity of
\* the node being processed by 0.02 and leaves the velocity of the candidate
\* as it was; an interaction that applies an impulse has a force of 0.01 or
\* more.
C31_SmallForceDampsNodeOnly ==
  cfLast.op = "apply" =>
    /\ \A k \in FrictionSteps :
         LET e == cfLast.log[k] IN
         /\ e.vAfter.node = <<TDiv(e.vBefore.node[1] * FrictionPercent, 100),
                              TDiv(e.vBefore.node[2] * FrictionPercent, 100)>>
         /\ e.vAfter.other = e.vBefore.other
    /\ \A f \in cfLast.forces :
         ForceSquared(f) >= (Q \div 100) * (Q \div 100)

\* C31 witness: a friction interaction between two moving nodes.
C31_Witness ==
  /\ cfLast.op = "apply"
  /\ \E k \in FrictionSteps :
       /\ cfLast.log[k].vBefore.node # <<0, 0>>
       /\ cfLast.log[k].vBefore.other # <<0, 0>>
       /\ cfLast.log[k].vAfter.node # cfLast.log[k].vBefore.node

(***************************************************************************)
(* Part 7.  AppState.deserialize: the state read from the query string     *)
(*                                                                         *)
(* A query value is absent or a string.  The strings are modelled by what  *)
(* their decoders make of them: an article string by its prefix and        *)
(* number, a vector string by whether it has the form (x,y), and a         *)
(* 'nodePositions' string by whether atob accepts it, whether the bytes    *)
(* are a MessagePack value, and the value they decode to.                  *)
(***************************************************************************)

\* queryString.get(key) === null
Absent == [present |-> FALSE, prefix |-> "", id |-> 0]

\* The article strings the page is opened with: "bm-12" and "xx-12".
ArticleStrings ==
  {[present |-> TRUE, prefix |-> "bm", id |-> 12],
   [present |-> TRUE, prefix |-> "xx", id |-> 12]}

\* A MessagePack value: nil, a number, an array of numbers or a map; the
\* entries are the ones Object.entries yields for it.
Decoded(kind, entries) == [kind |-> kind, entries |-> entries]

\* One entry of Object.entries: a key with a point {x, y}, a number or null.
EntryOf(key, kind, x, y) == [key |-> key, kind |-> kind, x |-> x, y |-> y]

\* A 'nodePositions' string: what atob and msgpack.decode make of it.
Encoded(atobOk, msgpackOk, value) ==
  [present |-> TRUE, atobOk |-> atobOk, msgpackOk |-> msgpackOk, value |-> value]

NoPositionString ==
  [present |-> FALSE, atobOk |-> FALSE, msgpackOk |-> FALSE, value |-> Decoded("nil", <<>>)]

\* The map {1: {x: 10, y: 20}, 2: {x: 30, y: 40}}: what serialize encodes.
PointMap ==
  Decoded("map", <<EntryOf(1, "point", 10, 20), EntryOf(2, "point", 30, 40)>>)

\* The 'nodePositions' strings the page is opened with: the encoding of
\* PointMap, and malformed ones: not base64, base64 of bytes that are not
\* MessagePack, and the encodings of nil, of the number 5, of the flat array
\* [1, 10, 20], of the map {1: 5} and of the map {1: {x: 10, y: 20}, 2: null}.
PositionStrings ==
  {Encoded(TRUE, TRUE, PointMap),
   Encoded(FALSE, FALSE, Decoded("nil", <<>>)),
   Encoded(TRUE, FALSE, Decoded("nil", <<>>)),
   Encoded(TRUE, TRUE, Decoded("nil", <<>>)),
   Encoded(TRUE, TRUE, Decoded("number", <<>>)),
   Encoded(TRUE, TRUE, Decoded("array", <<EntryOf(0, "number", 1, 0),
                                          EntryOf(1, "number", 10, 0),
                                          EntryOf(2, "number", 20, 0)>>)),
   Encoded(TRUE, TRUE, Decoded("map", <<EntryOf(1, "number", 5, 0)>>)),
   Encoded(TRUE, TRUE, Decoded("map", <<EntryOf(1, "point", 10, 20),
                                        EntryOf(2, "null", 0, 0)>>))}

\* The string is the encoding of a map from ids to points.
WellFormed(s) ==
  /\ s.atobOk
  /\ s.msgpackOk
  /\ s.value.kind = "map"
  /\ \A k \in 1..Len(s.value.entries) : s.value.entries[k].kind = "point"

\* The query strings the page is opened with.
Queries ==
  [currentArticle : {Absent} \cup ArticleStrings,
   sidebarArticle : {Absent, [present |-> TRUE, prefix |-> "nn", id |-> 7]},
   zoomLevel : {"absent", "200", "2x"},
   translation : {"absent", "(3,-4)", "3;4"},
   debug : {"absent", "true"},
   nodePositions : {NoPositionString} \cup PositionStrings]

\* The result of a decoder: it threw, or it returned `value`.
Threw == [threw |-> TRUE, value |-> <<>>]

Returned(v) == [threw |-> FALSE, value |-> v]

\* AppState.stringToArticle
StringToArticle(s) ==
  IF s.prefix \notin {"bm", "nn"} THEN Threw
  ELSE Returned(<<s.prefix, s.id>>)

\* Number.parseInt(value, 10): the leading digits of the string.
ParseInt(s) == IF s = "200" THEN 200 ELSE 2

\* Vector2D.parse
VectorParse(s) ==
  IF s = "(3,-4)" THEN Returned(<<3, -4>>) ELSE Threw

\* `new Vector2D(value.x, value.y)` for an entry of Object.entries: a point
\* gives its coordinates, a number has no x or y and gives (0, 0).
EntryPosition(e) ==
  IF e.kind = "point" THEN <<e.key, e.x, e.y>> ELSE <<e.key, 0, 0>>

\* The decoder handed to trySet('nodePositions', ...): atob, msgpack.decode,
\* then one Vector2D per entry of Object.entries(decoded).  atob and
\* msgpack.decode throw on what they cannot read, Object.entries throws on
\* null, and `value.x` throws on a null entry.
DecodePositions(s) ==
  IF ~s.atobOk \/ ~s.msgpackOk THEN Threw
  ELSE IF s.value.kind = "nil" THEN Threw
  ELSE IF \E k \in 1..Len(s.value.entries) : s.value.entries[k].kind = "null" THEN Threw
  ELSE Returned({EntryPosition(s.value.entries[k]) : k \in 1..Len(s.value.entries)})

\* trySet(key, valueFn): the field after it, given the field before and the
\* decoder's result for a present value.
TrySet(before, present, result) ==
  IF ~present THEN [value |-> before, warned |-> FALSE]
  ELSE IF result.threw THEN [value |-> before, warned |-> TRUE]
  ELSE [value |-> result.value, warned |-> FALSE]

\* `new AppState()`: the defaults of the fields; nodePositions is undefined.
NewAppState ==
  [currentArticle |-> <<>>, sidebarArticle |-> <<>>, zoomLevel |-> 150,
   translation |-> <<0, 0>>, debug |-> FALSE, nodePositions |-> "undefined"]

\* The fields and the warnings of AppState.deserialize() for query q.
DeserializeFields(q) ==
  [currentArticle |-> TrySet(NewAppState.currentArticle, q.currentArticle.present,
                             StringToArticle(q.currentArticle)),
   sidebarArticle |-> TrySet(NewAppState.sidebarArticle, q.sidebarArticle.present,
                             StringToArticle(q.sidebarArticle)),
   zoomLevel |-> TrySet(NewAppState.zoomLevel, q.zoomLevel # "absent",
                        Returned(ParseInt(q.zoomLevel))),
   translation |-> TrySet(NewAppState.translation, q.translation # "absent",
                          VectorParse(q.translation)),
   debug |-> TrySet(NewAppState.debug, q.debug # "absent", Returned(q.debug = "true")),
   nodePositions |-> TrySet(NewAppState.nodePositions, q.nodePositions.present,
                            DecodePositions(q.nodePositions))]

Keys == {"currentArticle", "sidebarArticle", "zoomLevel", "translation", "debug",
         "nodePositions"}

InitDec ==
  /\ appState = NewAppState
  /\ decLast = [op |-> "none", query |-> <<>>, warned |-> {}, threw |-> FALSE]

\* The page is opened with query q: AppState.deserialize().  Every decoder
\* runs inside trySet's try / catch, so nothing is thrown to the caller.
Deserialize(q) ==
  LET f == DeserializeFields(q)
  IN  /\ decLast.op = "none"
      /\ appState' = [k \in Keys |-> f[k].value]
      /\ decLast' = [op |-> "deserialize", query |-> q,
                     warned |-> {k \in Keys : f[k].warned}, threw |-> FALSE]

NextDec ==
  /\ \E q \in Queries : Deserialize(q)
  /\ UNCHANGED <<bmVars, geoVars, cfVars, idxVars, ngVars, uiVars, selVars, liveVars, rendVars, setVars>>

(***************************************************************************)
(* Claims about decoding the query string (checked under SpecDec)          *)
(***************************************************************************)

\* The page was opened with a 'nodePositions' value that is not the encoding
\* of a map from ids to points.
MalformedPositions ==
  /\ decLast.op = "deserialize"
  /\ decLast.query.nodePositions.present
  /\ ~WellFormed(decLast.query.nodePositions)

\* The fields other than nodePositions hold what their query values decode
\* to: the default where the value is absent or unreadable.
OtherFieldsDecoded ==
  LET q == decLast.query IN
  /\ appState.currentArticle =
       (IF q.currentArticle.present /\ q.currentArticle.prefix \in {"bm", "nn"}
          THEN <<q.currentArticle.prefix, q.currentArticle.id>> ELSE <<>>)
  /\ appState.sidebarArticle =
       (IF q.sidebarArticle.present THEN <<q.sidebarArticle.prefix, q.sidebarArticle.id>>
        ELSE <<>>)
  /\ appState.zoomLevel =
       (CASE q.zoomLevel = "200" -> 200 [] q.zoomLevel = "2x" -> 2 [] OTHER -> 150)
  /\ appState.translation = (IF q.translation = "(3,-4)" THEN <<3, -4>> ELSE <<0, 0>>)
  /\ appState.debug = (q.debug = "true")

\* C26, no exception: deserialize throws nothing whatever the position value
\* is, and decodes every other field.
C26_NeverThrows ==
  decLast.op = "deserialize" => ~decLast.threw /\ OtherFieldsDecoded

\* C26: for every malformed position value, deserialize throws nothing, logs
\* a warning for it, leaves the state without positions and decodes every
\* other field.
C26_MalformedFailsClosed ==
  MalformedPositions =>
    /\ ~decLast.threw
    /\ "nodePositions" \in decLast.warned
    /\ appState.nodePositions = "undefined"
    /\ OtherFieldsDecoded

(***************************************************************************)
(* Part 8.  NodeSelection                                                  *)
(***************************************************************************)

\* tint = 0x666666, the default of the constructor.
SelectionTint == 6710886

\* 0xffffff, the tint delete and clear give a node.
DefaultTint == 16777215

\* The tints assigned to the selection: the default one and 0x3399ff.
TintsToSet == {SelectionTint, 3381759}

\* `new NodeSelection()`: no nodes, the default tint.
NewSelection == [nodes |-> {}, tint |-> SelectionTint]

\* What is handed to select: one Container, or an array of Containers.
Selectables ==
  {[single |-> TRUE, nodes |-> {n}] : n \in NodeIds}
    \cup {[single |-> FALSE, nodes |-> ns] : ns \in SUBSET NodeIds}

\* clear() that empties the set and leaves the tints of its nodes.
NodeSelectionClearKeepsTints(s, tints) == [sel |-> [s EXCEPT !.nodes = {}], tints |-> tints]

\* NodeSelection.add(node), for the selection s and the tints of the visuals.
NodeSelectionAdd(s, tints, n) ==
  [sel |-> [s EXCEPT !.nodes = @ \cup {n}], tints |-> [tints EXCEPT ![n] = s.tint]]

\* NodeSelection.delete(node)
NodeSelectionDelete(s, tints, n) ==
  [sel |-> [s EXCEPT !.nodes = @ \ {n}], tints |-> [tints EXCEPT ![n] = DefaultTint]]

\* NodeSelection.clear()
NodeSelectionClear(s, tints) ==
  [sel |-> [s EXCEPT !.nodes = {}],
   tints |-> [n \in NodeIds |-> IF n \in s.nodes THEN DefaultTint ELSE tints[n]]]

\* The loop of select over the nodes `rest` still to add.
RECURSIVE NodeSelectionAddAll(_, _, _)
NodeSelectionAddAll(s, tints, rest) ==
  IF rest = {} THEN [sel |-> s, tints |-> tints]
  ELSE LET n == CHOOSE k \in rest : \A j \in rest : k <= j
           added == NodeSelectionAdd(s, tints, n)
       IN  NodeSelectionAddAll(added.sel, added.tints, rest \ {n})

\* NodeSelection.select(nodes): clear(), then add for the Container or for
\* every node of the array.
NodeSelectionSelect(s, tints, given) ==
  LET cleared == NodeSelectionClear(s, tints)
  IN  IF given.single
        THEN NodeSelectionAdd(cleared.sel, cleared.tints, CHOOSE n \in given.nodes : TRUE)
        ELSE NodeSelectionAddAll(cleared.sel, cleared.tints, given.nodes)

\* The setter of NodeSelection.tint
NodeSelectionSetTint(s, tints, value) ==
  IF s.tint = value THEN [sel |-> s, tints |-> tints]
  ELSE [sel |-> [s EXCEPT !.tint = value],
        tints |-> [n \in NodeIds |-> IF n \in s.nodes THEN value ELSE tints[n]]]

InitSel ==
  /\ nodeSelection = NewSelection
  /\ visualTint = [n \in NodeIds |-> DefaultTint]
  /\ selLast = [op |-> "none", before |-> {}, given |-> {}]

\* One NodeSelection operation with result `out`.
NodeSelectionStep(op, given, out) ==
  /\ nodeSelection' = out.sel
  /\ visualTint' = out.tints
  /\ selLast' = [op |-> op, before |-> nodeSelection.nodes, given |-> given]

NextSel ==
  /\ \/ \E n \in NodeIds :
          NodeSelectionStep("add", {n}, NodeSelectionAdd(nodeSelection, visualTint, n))
     \/ \E n \in NodeIds :
          NodeSelectionStep("delete", {n}, NodeSelectionDelete(nodeSelection, visualTint, n))
     \/ NodeSelectionStep("clear", {}, NodeSelectionClear(nodeSelection, visualTint))
     \/ \E g \in Selectables :
          NodeSelectionStep("select", g.nodes, NodeSelectionSelect(nodeSelection, visualTint, g))
     \/ \E t \in TintsToSet :
          NodeSelectionStep("tint", {}, NodeSelectionSetTint(nodeSelection, visualTint, t))
  /\ UNCHANGED <<bmVars, geoVars, cfVars, idxVars, ngVars, uiVars, decVars, liveVars, rendVars, setVars>>

(***************************************************************************)
(* Claims about NodeSelection (checked under SpecSel)                      *)
(***************************************************************************)

\* C32, members: every visual in the selection carries the selection's tint.
C32_MembersCarryTint ==
  \A n \in nodeSelection.nodes : visualTint[n] = nodeSelection.tint

\* C32, removal: every visual the last operation removed from the selection
\* carries the default tint.
C32_RemovedCarryDefault ==
  \A n \in selLast.before \ nodeSelection.nodes : visualTint[n] = DefaultTint

\* C32, select: select leaves the selection equal to the given visuals.
C32_SelectGivesExactly ==
  selLast.op = "select" => nodeSelection.nodes = selLast.given

\* C32: after any sequence of add, delete, clear, select and tint
\* assignments every visual in the selection carries the selection's tint,
\* every visual just removed carries the default tint, and select leaves
\* exactly the given visuals selected.
C32_SelectionTints ==
  C32_MembersCarryTint /\ C32_RemovedCarryDefault /\ C32_SelectGivesExactly

\* C32 witness: select has replaced a selection of two visuals by another,
\* sharing one visual with it, under a tint that was assigned.
C32_Witness ==
  /\ selLast.op = "select"
  /\ Cardinality(selLast.before) = 2
  /\ Cardinality(selLast.before \cap nodeSelection.nodes) = 1
  /\ Cardinality(nodeSelection.nodes) = 2
  /\ nodeSelection.tint # SelectionTint

(***************************************************************************)
(* Part 9.  Loading a graph: the overlay, setData and 'start-sim'          *)
(*                                                                         *)
(* The viewport shows the loading overlay when a graph is requested        *)
(* (loadGraph, or the 'reload' event) and hides it on 'start-sim'.  The    *)
(* graph view hands the nodes to the simulation, which calls initialize    *)
(* on the collision force, and then calls NodeGraph.setData.  The force's  *)
(* only onStart listener is the one GraphForceBehaviour adds, which emits  *)
(* 'start-sim'.                                                            *)
(***************************************************************************)

\* n calls of applyForce on the counter `ticks`, as far as the counter and
\* the animation-frame callbacks are concerned: the counter after them and
\* the number of callbacks queued.  Evaluated as the first half of the calls
\* followed by the rest.
RECURSIVE GateLoop(_, _)
GateLoop(st, n) ==
  IF n = 0 THEN st
  ELSE IF n = 1
    THEN IF Quiescent(st.ticks) THEN [st EXCEPT !.ticks = @ + 1]
         ELSE IF StartsNow(st.ticks)
           THEN [ticks |-> st.ticks + 1, queued |-> st.queued + 1]
         ELSE st
  ELSE CHOOSE out \in {GateLoop(half, n - n \div 2) :
                         half \in {GateLoop(st, n \div 2)}} : TRUE

\* `count` animation-frame callbacks queued for epoch e.
Callbacks(e, count) == [k \in 1..count |-> e]

InitLive ==
  /\ overlayShown = FALSE
  /\ pendingLoads = 0
  /\ awaitingStart = FALSE

\* Viewport.loadGraph up to its await: the overlay is shown and the graph is
\* fetched.
ViewportLoadGraph ==
  /\ firstRender
  /\ pendingLoads = 0
  /\ overlayShown' = TRUE
  /\ pendingLoads' = 1
  /\ UNCHANGED <<geoVars, cfVars, idxVars, ngVars, awaitingStart>>

\* The 'reload' listener of the viewport: with a graph on screen, the
\* overlay is shown and setGraph is set to run in 100 ms.
ViewportReload ==
  /\ ~firstRender
  /\ pendingLoads = 0
  /\ idxSteps < MaxIdxSteps
  /\ overlayShown' = TRUE
  /\ pendingLoads' = 1
  /\ UNCHANGED <<geoVars, cfVars, idxVars, ngVars, awaitingStart>>

\* The page is opened from a shared link.
LiveLoadState(snap) ==
  /\ pendingLoads = 0
  /\ LoadState(snap)
  /\ UNCHANGED <<cfVars, liveVars>>

\* graphView.setGraph(graph) for a fetched or reloaded graph: the simulation
\* is given the nodes and initializes the force, then NodeGraph.setData
\* runs.  On the snapshot path setData emits 'start-sim' itself; otherwise
\* the 200 ticks of the warm start each call applyForce.
SetGraph(cfg, m) ==
  LET init == ForceInitialize(ticksSinceNewNodes, listeners)
      snapshotPath == firstRender /\ SetNodePositions(cfg, nodePositions).all
      ran == GateLoop([ticks |-> init.ticksSinceNewNodes, queued |-> 0],
                      WarmStartTicks)
  IN  /\ pendingLoads > 0
      /\ epoch < MaxEpochs
      /\ NodeGraphSetData(cfg, m, 14)
      /\ pendingLoads' = pendingLoads - 1
      /\ epoch' = epoch + 1
      /\ listeners' = init.listeners
      /\ IF snapshotPath
           THEN /\ ticksSinceNewNodes' = init.ticksSinceNewNodes
                /\ rafQueue' = rafQueue
                /\ awaitingStart' = FALSE
                /\ overlayShown' = FALSE
           ELSE /\ ticksSinceNewNodes' = ran.ticks
                /\ rafQueue' = rafQueue \o Callbacks(epoch + 1, ran.queued)
                /\ awaitingStart' = TRUE
                /\ overlayShown' = overlayShown
      /\ UNCHANGED <<scheduled, framesRun, listenersAtRun, notified, appliesSinceInit,
                     alphaSeen, cfLast>>

\* One step of the simulation's timer: the forces (applyForce among them),
\* the move of node m, the 'tick' listeners.
LiveTick(m) ==
  LET ran == GateLoop([ticks |-> ticksSinceNewNodes, queued |-> 0], 1)
  IN  /\ epoch > 0
      /\ m # 0 => pendingLoads = 0
      /\ TimerTick(m, 14)
      /\ ticksSinceNewNodes' = ran.ticks
      /\ rafQueue' = rafQueue \o Callbacks(epoch, ran.queued)
      /\ UNCHANGED <<epoch, listeners, scheduled, framesRun, listenersAtRun, notified,
                     appliesSinceInit, alphaSeen, cfLast, liveVars>>

\* The browser runs the oldest animation-frame callback: the onStart
\* listener emits 'start-sim' and the viewport hides the overlay.
LiveFrame ==
  /\ Frame({}, {})
  /\ awaitingStart' = FALSE
  /\ overlayShown' = FALSE
  /\ UNCHANGED <<idxVars, ngVars, pendingLoads>>

\* The graphs fetched: two nodes overlapping or apart, the third far away.
GraphsToFetch ==
  IF firstRender THEN {c \in NodeConfigs : c[3].x = 200 /\ c[2].x \in {30, 200}}
  ELSE GraphsToLoad

\* The variables no step of loading touches.
LiveRest == UNCHANGED <<bmVars, uiVars, decVars, selVars, rendVars, setVars>>

\* The steps that are bound to happen: the timer of a running simulation
\* ticks, a requested graph arrives, a queued callback runs.
TimerTicks == LiveRest /\ \E m \in MovedByForces : LiveTick(m)

GraphArrives ==
  LiveRest /\ \E cfg \in GraphsToFetch, m \in MovedByForces : SetGraph(cfg, m)

FrameRuns == LiveRest /\ LiveFrame

NextLive ==
  /\ \/ ViewportLoadGraph
     \/ ViewportReload
     \/ \E snap \in Snapshots : LiveLoadState(snap)
     \/ GraphArrives
     \/ TimerTicks
     \/ FrameRuns
  /\ LiveRest

(***************************************************************************)
(* Claims about 'start-sim' (checked under SpecLive, in which the timer of *)
(* a running simulation keeps ticking, queued animation-frame callbacks    *)
(* run and a requested graph arrives)                                      *)
(***************************************************************************)

\* C33, event: after every setData 'start-sim' is eventually emitted.
C33_StartSimAfterSetData == awaitingStart ~> ~awaitingStart

\* C33, overlay: a loading overlay that is shown is eventually hidden.
C33_OverlayHidden == overlayShown ~> ~overlayShown

\* C33: after every setData call, the first and every later one, 'start-sim'
\* is eventually emitted while the simulation keeps ticking, and the loading
\* overlay shown for the load is eventually hidden.
C33_StartSimEventually == C33_StartSimAfterSetData /\ C33_OverlayHidden

\* C33 witness: after a reload, the callback queued by the reloaded graph's
\* own ticks has run and the overlay is hidden.
C33_Witness ==
  /\ epoch = 2
  /\ framesRun > 0
  /\ ~awaitingStart
  /\ ~overlayShown
  /\ ~ngLast.wasFirst

(***************************************************************************)
(* Claims about the manager's two lists (checked under SpecBM)             *)
(***************************************************************************)

\* The instance at every position of behs was built by the class at that
\* position of cons, and the lists are equally long.
Aligned(cons, behs) ==
  /\ Len(cons) = Len(behs)
  /\ \A i \in 1..Len(behs) : behs[i].type = cons[i]

\* C34: after any sequence of register calls, failing ones included,
\* #constructors and #behaviours have the same length, the instance at
\* position i was built by the class at position i, and a class whose
\* construction failed is not in #constructors.
C34_ListsAligned ==
  /\ Aligned(constructors, behaviours)
  /\ \A t \in Types : Has(constructors, t) => Has(regOrder, t)

\* C34, duplicates: a register that fails because the class is a duplicate
\* leaves both lists as they were.
C34_DuplicateKeepsLists ==
  (bmLast.op = "register" /\ Has(bmLast.preCons, bmLast.type)) =>
    constructors = bmLast.preCons /\ behaviours = bmLast.preBehs

(***************************************************************************)
(* Part 10.  The renderer's behaviours over node-set replacements          *)
(*                                                                         *)
(* NodeGraph registers its seven behaviours on one manager and then, on    *)
(* every setData, destroys the visuals of the previous node set and builds *)
(* new ones, running the nodeGraphicsCreated hooks for each.  A visual is  *)
(* known by the load that built it and the node it shows.  Of the handlers *)
(* the hooks add, the ones followed here are the pointer handlers on the   *)
(* visual and on the shared viewport; pointer movement is left out, so     *)
(* every press and release is a click.                                     *)
(***************************************************************************)

\* The behaviour classes, numbered as NodeGraph's constructor names them.
GraphGridBehaviour == 1
GraphNodeBBoxBehaviour == 2
GraphDragBehaviour == 3
GraphSelectionBehaviour == 4
GraphNodeTintBehaviour == 5
GraphForceBehaviour == 6
GraphDebugBehaviour == 7

\* Number of setData calls followed.
MaxLoads == 2

\* Largest number of nodes in a graph that is set.
MaxVisuals == 2

\* A registration chain with the tint behaviour ahead of the drag behaviour.
RendererOrderTintFirst ==
  <<GraphGridBehaviour, GraphNodeBBoxBehaviour, GraphNodeTintBehaviour,
    GraphSelectionBehaviour, GraphDragBehaviour, GraphForceBehaviour,
    GraphDebugBehaviour>>

\* The register chain of NodeGraph's constructor.
RendererOrder ==
  <<GraphGridBehaviour, GraphNodeBBoxBehaviour, GraphDragBehaviour,
    GraphSelectionBehaviour, GraphNodeTintBehaviour, GraphForceBehaviour,
    GraphDebugBehaviour>>

\* The class whose state the constructor of class c asks for (NoType: none).
ConstructorAsks(c) ==
  IF c = GraphForceBehaviour THEN GraphNodeBBoxBehaviour ELSE NoType

\* #getState(behaviour, requestingBehaviour) as to what it throws: "order"
\* for the out-of-order error, "TypeError" when no instance stands at the
\* target's index, "none" when it returns.
GetStateError(target, requesting, cons, behs) ==
  LET requestingIndex == IndexOf(cons, requesting)
      index == IndexOf(cons, target)
  IN  IF requestingIndex < index THEN "order"
      ELSE IF Get(behs, index) = NoInst THEN "TypeError"
      ELSE "none"

\* One getState call as the log keeps it.
AskRec(by, target, phase, err) ==
  [by |-> by, target |-> target, phase |-> phase, err |-> err]

\* The getState(GraphDragBehaviour) call every handler of the tint behaviour
\* makes through the getState its hook was handed.
TintHandlerAsks(phase) ==
  AskRec(GraphNodeTintBehaviour, GraphDragBehaviour, phase,
         GetStateError(GraphDragBehaviour, GraphNodeTintBehaviour,
                       registered, instances))

\* The visual built by load l for node i; "no visual".
Visual(l, i) == [load |-> l, node |-> i]

NoVisual == Visual(0, 0)

RendRecord(op, ran) == [op |-> op, ran |-> ran]

\* NodeGraph's constructor has registered every behaviour.
Built == Len(instances) = Len(RendererOrder)

InitRend ==
  /\ registered = <<>>
  /\ instances = <<>>
  /\ loads = 0
  /\ allGraphics = <<>>
  /\ selected = {}
  /\ upHandlers = <<>>
  /\ mouseDown = FALSE
  /\ pressedVisual = NoVisual
  /\ dragState = FALSE
  /\ getStateCalls = {}
  /\ rendLast = RendRecord("none", <<>>)

\* The next register of the chain.  A constructor that throws ends the chain
\* and with it NodeGraph's constructor.
RegisterNext ==
  LET c == RendererOrder[Len(registered) + 1]
      q == ConstructorAsks(c)
      cons1 == Add(registered, c)
      err == IF q = NoType THEN "none" ELSE GetStateError(q, c, cons1, instances)
  IN  /\ Len(registered) < Len(RendererOrder)
      /\ Aligned(registered, instances)
      /\ registered' = cons1
      /\ instances' = IF err = "none"
                        THEN Append(instances, [type |-> c, serial |-> 1])
                        ELSE instances
      /\ getStateCalls' = IF q = NoType THEN getStateCalls
                          ELSE getStateCalls \cup {AskRec(c, q, "constructor", err)}
      /\ rendLast' = RendRecord("register", <<>>)
      /\ UNCHANGED <<loads, allGraphics, selected, upHandlers, mouseDown,
                     pressedVisual, dragState>>

\* NodeGraph.setData with k nodes, as far as #createNodeGraphics goes: the old
\* visuals are destroyed and dropped from #nodes, k visuals are built, and
\* for each of them the tint behaviour's nodeGraphicsCreated adds a
\* 'pointerup' (and a 'pointerupoutside') listener to the viewport.
CreateNodeGraphics(k) ==
  LET built == [i \in 1..k |-> Visual(loads + 1, i)]
  IN  /\ Built
      /\ loads < MaxLoads
      /\ loads' = loads + 1
      /\ allGraphics' = built
      /\ upHandlers' = upHandlers \o built
      /\ rendLast' = RendRecord("setData", <<>>)
      /\ UNCHANGED <<registered, instances, selected, mouseDown, pressedVisual,
                     dragState, getStateCalls>>

\* 'pointerdown' on the k-th visual: the handlers of the drag, the selection
\* and the tint behaviour, in that order.
VisualPointerDown(k) ==
  /\ k \in 1..Len(allGraphics)
  /\ ~mouseDown
  /\ dragState' = TRUE
  /\ mouseDown' = TRUE
  /\ pressedVisual' = allGraphics[k]
  /\ rendLast' = RendRecord("pointerdown", <<>>)
  /\ UNCHANGED <<registered, instances, loads, allGraphics, selected, upHandlers,
                 getStateCalls>>

\* 'pointerup' on the viewport: the drag behaviour's listener, the selection
\* behaviour's (a click toggles the pressed visual), then every listener the
\* tint behaviour has added, each asking for the drag state.
ViewportPointerUp ==
  /\ Built
  /\ dragState' = FALSE
  /\ mouseDown' = FALSE
  /\ selected' = IF ~mouseDown THEN selected
                 ELSE IF pressedVisual \in selected THEN {}
                 ELSE {pressedVisual}
  /\ getStateCalls' = IF upHandlers = <<>> THEN getStateCalls
                      ELSE getStateCalls \cup {TintHandlerAsks("pointerup")}
  /\ rendLast' = RendRecord("pointerup", upHandlers)
  /\ UNCHANGED <<registered, instances, loads, allGraphics, upHandlers,
                 pressedVisual>>

\* 'mouseover' on the k-th visual: the tint behaviour's listener asks for the
\* drag state.
VisualMouseOver(k) ==
  /\ k \in 1..Len(allGraphics)
  /\ getStateCalls' = getStateCalls \cup {TintHandlerAsks("mouseover")}
  /\ rendLast' = RendRecord("mouseover", <<>>)
  /\ UNCHANGED <<registered, instances, loads, allGraphics, selected, upHandlers,
                 mouseDown, pressedVisual, dragState>>

\* The Escape key: the selection behaviour clears the selection.
EscapeKey ==
  /\ Built
  /\ selected # {}
  /\ selected' = {}
  /\ rendLast' = RendRecord("escape", <<>>)
  /\ UNCHANGED <<registered, instances, loads, allGraphics, upHandlers, mouseDown,
                 pressedVisual, dragState, getStateCalls>>

NextRend ==
  /\ \/ RegisterNext
     \/ \E k \in 1..MaxVisuals : CreateNodeGraphics(k)
     \/ \E k \in 1..MaxVisuals : VisualPointerDown(k)
     \/ ViewportPointerUp
     \/ \E k \in 1..MaxVisuals : VisualMouseOver(k)
     \/ EscapeKey
  /\ UNCHANGED <<bmVars, geoVars, cfVars, idxVars, ngVars, uiVars, decVars,
                 selVars, liveVars, setVars>>

(***************************************************************************)
(* Claims about the renderer's behaviours (checked under SpecRend)         *)
(***************************************************************************)

\* C35: with the order in which the renderer registers its behaviours, no
\* getState call a behaviour makes, from its constructor or from a handler
\* its hook has added, throws the out-of-order error.
C35_NoOutOfOrderError == \A c \in getStateCalls : c.err # "order"

\* C35, more: none of these calls throws at all.
C35_NoGetStateThrows == \A c \in getStateCalls : c.err = "none"

\* C35 witness: the force behaviour's constructor has asked for the bounding
\* boxes, and after a second setData the tint behaviour's listeners have
\* asked for the drag state on a pointer-up and on a mouse-over.
C35_Witness ==
  /\ Built
  /\ loads = 2
  /\ \E c \in getStateCalls : c.phase = "constructor" /\ c.by = GraphForceBehaviour
  /\ \E c \in getStateCalls : c.phase = "pointerup" /\ c.by = GraphNodeTintBehaviour
  /\ \E c \in getStateCalls : c.phase = "mouseover"

\* C36: after every setData call the selection holds only visuals of the
\* current node set, so every selected visual has an index in #nodes.
C36_SelectionIsCurrent ==
  rendLast.op = "setData" => \A v \in selected : IndexOf(allGraphics, v) >= 0

\* C36, first load: after the first setData nothing is selected.
C36_FirstLoadSelectsNothing ==
  (rendLast.op = "setData" /\ loads = 1) => selected = {}

\* C39: the pointer listeners the behaviours keep on the viewport do not grow
\* with the number of setData calls, and no listener added for a destroyed
\* visual runs on a pointer-up.
C39_NoListenersOfDestroyedVisuals ==
  /\ Len(upHandlers) <= Len(allGraphics)
  /\ rendLast.op = "pointerup" =>
       \A k \in 1..Len(rendLast.ran) : Has(allGraphics, rendLast.ran[k])

\* C39, first load: until the second setData there is one listener per
\* visual.
C39_OneListenerPerVisualAtFirst ==
  loads <= 1 => upHandlers = allGraphics

(***************************************************************************)
(* Claims about the travel of a click (checked under SpecUI)               *)
(***************************************************************************)

\* C37: the travel counted for a click candidate is only the movement since
\* that press's own pointer-down: after any earlier presses, one that ended
\* with a pointer-up outside included, a pointer-down starts at a travel of
\* 0, and a pointer-up that follows it without movement is taken as a click
\* and toggles the selection.
C37_TravelCountedFromOwnPointerDown ==
  /\ uiLast.op = "down" => distanceTravelled = 0
  /\ (uiLast.op = "up" /\ uiLast.travel = 0) => (uiLast.click /\ Toggled)

\* C37, presses that end inside: after a pointer-up the travel is 0 again, so
\* the press that follows is counted from its own pointer-down.
C37_PointerUpClearsTravel ==
  uiLast.op = "up" => distanceTravelled = 0

(***************************************************************************)
(* Part 11.  IndexedSet                                                    *)
(*                                                                         *)
(* The class keeps an array #elements and a Map #indices from element to   *)
(* position.  Both are followed as the class's methods change them; a      *)
(* value read from the Map is either defined or undefined, and what        *)
(* Array.prototype.splice and the `<` of the loop make of undefined is     *)
(* part of the translation.                                                *)
(***************************************************************************)

\* Number of distinct values offered to the set.
NumElements == 3

Elements == 1..NumElements

\* The value of `undefined` where an element is expected.
NoElement == 0

\* Map.prototype.get(key): a number, or undefined.
MapGet(mp, key) ==
  IF key \in DOMAIN mp THEN [defined |-> TRUE, value |-> mp[key]]
  ELSE [defined |-> FALSE, value |-> 0]

\* Map.prototype.set(key, value)
MapSet(mp, key, value) ==
  [k \in DOMAIN mp \cup {key} |-> IF k = key THEN value ELSE mp[k]]

\* Map.prototype.delete(key): the map after it.
MapDelete(mp, key) == [k \in DOMAIN mp \ {key} |-> mp[k]]

\* ToIntegerOrInfinity of a splice argument: undefined becomes 0.
ToIntegerOrInfinity(v) == IF v.defined THEN v.value ELSE 0

\* Array.prototype.splice(start, 1): the array after it.
Splice(arr, start) ==
  LET from == ToIntegerOrInfinity(start)
  IN  IF from < Len(arr)
        THEN [i \in 1..(Len(arr) - 1) |-> IF i <= from THEN arr[i] ELSE arr[i + 1]]
        ELSE arr

\* for (let i = index; i < arr.length; i++) mp.set(arr[i], i): the map after
\* the loop.  `undefined < n` is false, so from undefined the loop body never
\* runs.
RECURSIVE RecomputeIndices(_, _, _)
RecomputeIndices(mp, arr, i) ==
  IF ~i.defined \/ ~(i.value < Len(arr)) THEN mp
  ELSE RecomputeIndices(MapSet(mp, arr[i.value + 1], i.value), arr,
                        [i EXCEPT !.value = @ + 1])

\* IndexedSet.size
IndexedSetSize == Cardinality(DOMAIN setIndices)

\* IndexedSet.get(index)
IndexedSetGet(index) ==
  IF index >= 0 /\ index < Len(setElements) THEN setElements[index + 1] ELSE NoElement

\* IndexedSet.has(element)
IndexedSetHas(element) == element \in DOMAIN setIndices

\* IndexedSet.indexOf(element)
IndexedSetIndexOf(element) ==
  LET found == MapGet(setIndices, element)
  IN  IF found.defined THEN found.value ELSE -1

SetRecord(op, element) ==
  [op |-> op, element |-> element, preElements |-> setElements,
   preAdded |-> setAdded]

InitSet ==
  /\ setElements = <<>>
  /\ setIndices = <<>>
  /\ setAdded = {}
  /\ setLast = [op |-> "none", element |-> NoElement, preElements |-> <<>>,
                preAdded |-> {}]

\* IndexedSet.add(element)
IndexedSetAdd(element) ==
  /\ IF IndexedSetHas(element)
       THEN UNCHANGED <<setElements, setIndices>>
       ELSE /\ setElements' = Append(setElements, element)
            /\ setIndices' = MapSet(setIndices, element, Len(setElements))
  /\ setAdded' = setAdded \cup {element}
  /\ setLast' = SetRecord("add", element)

\* IndexedSet.delete(element)
IndexedSetDelete(element) ==
  LET result == element \in DOMAIN setIndices
      deleted == MapDelete(setIndices, element)
      index == MapGet(deleted, element)
      spliced == Splice(setElements, index)
  IN  /\ IF result
           THEN /\ setElements' = spliced
                /\ setIndices' = RecomputeIndices(MapDelete(deleted, element),
                                                  spliced, index)
           ELSE UNCHANGED <<setElements, setIndices>>
      /\ setAdded' = setAdded \ {element}
      /\ setLast' = SetRecord("delete", element)

\* IndexedSet.clear()
IndexedSetClear ==
  /\ setElements # <<>>
  /\ setElements' = <<>>
  /\ setIndices' = <<>>
  /\ setAdded' = {}
  /\ setLast' = SetRecord("clear", NoElement)

NextSet ==
  /\ \/ \E e \in Elements : IndexedSetAdd(e)
     \/ \E e \in Elements : IndexedSetDelete(e)
     \/ IndexedSetClear
  /\ UNCHANGED <<bmVars, geoVars, cfVars, idxVars, ngVars, uiVars, decVars,
                 selVars, liveVars, rendVars>>

(***************************************************************************)
(* Claims about IndexedSet (checked under SpecSet)                         *)
(***************************************************************************)

\* The elements the set yields: get(i) for every i below size.
Yielded == {IndexedSetGet(i) : i \in 0..(IndexedSetSize - 1)}

\* The array arr without the element e, the rest in order.
RECURSIVE Without(_, _)
Without(arr, e) ==
  IF arr = <<>> THEN <<>>
  ELSE IF Head(arr) = e THEN Without(Tail(arr), e)
  ELSE <<Head(arr)>> \o Without(Tail(arr), e)

\* C38, get and indexOf: indexOf(get(i)) = i for every i below size.
C38_IndexOfGet ==
  \A i \in 0..(IndexedSetSize - 1) : IndexedSetIndexOf(IndexedSetGet(i)) = i

\* C38, presence: every element added and not deleted since is yielded.
C38_AddedArePresent == setAdded \subseteq Yielded

\* C38, delete: delete(e) removes e and no other element.
C38_DeleteRemovesOnlyThat ==
  setLast.op = "delete" => setElements = Without(setLast.preElements, setLast.element)

\* C38: after any sequence of add, delete and clear, get and indexOf are
\* mutually consistent, every element added and not deleted is present, and
\* delete(e) removes e and no other element.
C38_GetAndIndexOfConsistent ==
  C38_IndexOfGet /\ C38_AddedArePresent /\ C38_DeleteRemovesOnlyThat

\* C38, has and size: has(e) is true exactly of the elements added and not
\* deleted since, and size is their number.
C38_HasFollowsAddAndDelete ==
  /\ \A e \in Elements : IndexedSetHas(e) <=> e \in setAdded
  /\ IndexedSetSize = Cardinality(setAdded)

(***************************************************************************)
(* Claims about the sizes BoundingBoxCache.get returns (checked under      *)
(* SpecIdx)                                                                *)
(***************************************************************************)

\* The rectangle a get for node i returns now.
GetNow(i) == CacheGet(sizes[i], nodes[i], viewScale)

\* The leaf at position k of the tree is as wide and as high as the rectangle
\* a get for its node returns now.
LeafSizeIsGetSize(k) ==
  /\ tree[k].maxX - tree[k].minX = GetNow(tree[k].node).w
  /\ tree[k].maxY - tree[k].minY = GetNow(tree[k].node).h

\* The cache has just been cleared and every leaf built from the get that
\* populated it.
JustPopulated == idxLast.op \in {"setData", "rebuild"}

\* C40, size: between two clears every get for a visual returns a rectangle
\* of the same size, the populating get included, at every camera scale: the
\* rectangle the populating get returned, which the leaf was built from, has
\* the size of the rectangle the next get returns.
C40_SameSizeOnEveryGet ==
  JustPopulated => \A k \in 1..Len(tree) : LeafSizeIsGetSize(k)

\* C40, size at scale 1: there the populating get and the next one agree.
C40_SameSizeAtScaleOne ==
  (JustPopulated /\ viewScale = 1) => \A k \in 1..Len(tree) : LeafSizeIsGetSize(k)

\* C40, centre: the rectangle a get returns is centred on the position of
\* the visual.
C40_CentredOnVisual ==
  tree # <<>> =>
    \A i \in NodeIds : Center2(GetNow(i)) = [x |-> 2 * nodes[i].gx, y |-> 2 * nodes[i].gy]

\* C40: between two cache clears get(visual) returns a rectangle of the same
\* size on every call for the same visual, the first call that populates the
\* cache included, at every camera scale, and the rectangle is centred on
\* the visual's position.
C40_GetReturnsOneSizeCentred == C40_SameSizeOnEveryGet /\ C40_CentredOnVisual

vars == <<bmVars, geoVars, cfVars, idxVars, ngVars, uiVars, libVars>>

\* The renderer as constructed: no behaviour registered, no graph set.
Init == InitBM /\ InitGeo /\ InitForce /\ InitIndex /\ InitNG /\ InitUI /\ InitDec /\ InitSel /\ InitLive /\ InitRend /\ InitSet

SpecBM == Init /\ [][NextBM]_vars

SpecCF == Init /\ [][NextCF]_vars

SpecIdx == Init /\ [][NextIdx]_vars

SpecNG == Init /\ [][NextNG]_vars

SpecUI == Init /\ [][NextUI]_vars

SpecDec == Init /\ [][NextDec]_vars

SpecSel == Init /\ [][NextSel]_vars

SpecRend == Init /\ [][NextRend]_vars

SpecSet == Init /\ [][NextSet]_vars

SpecLive ==
  /\ Init
  /\ [][NextLive]_vars
  /\ WF_vars(GraphArrives)
  /\ WF_vars(TimerTicks)
  /\ WF_vars(FrameRuns)

====
